---- MODULE Spec2Model ----
(***************************************************************************)
(* A model of js-ojus/sparsebitset (src/sparsebitset.go and the popcount   *)
(* helpers of src/unnamed/part_000).                                       *)
(*                                                                         *)
(* A uint64 word is modelled as the set of the indices of its 1 bits, so   *)
(* |, &, &^ and ^ are union, intersection, difference and symmetric        *)
(* difference, and shifts move the indices and drop those that leave       *)
(* 0 .. wordSize-1.  The word size and the offset range are scaled down    *)
(* (the code has 64-bit words and 58-bit offsets); the position domain is  *)
(* 0 .. maxPos and position arithmetic wraps at maxPos + 1 as uint64       *)
(* arithmetic wraps at 2^64.                                               *)
(*                                                                         *)
(* A blockAry is a sequence of blocks [Offset, Bits].  Go indices are      *)
(* 0-based: an index idx of the code is kept 0-based in the operators'     *)
(* parameters and the element it names is a[idx + 1].                      *)
(***************************************************************************)
EXTENDS Integers, Sequences, FiniteSets, TLC

\* ------------------------------------------------------------------ bounds
\* Number of bits of a word (64 in the code).
wordSize == 2

\* Highest block offset the inputs use.
MaxOffset == 2

\* Most members an operand of the binary operations is given.
MaxCount == 2

maxPos == (MaxOffset + 1) * wordSize - 1

Positions == 0 .. maxPos

WordBits == 0 .. (wordSize - 1)

\* ------------------------------------------------------- word arithmetic
Min(S) == CHOOSE x \in S : \A y \in S : x <= y

Max(S) == CHOOSE x \in S : \A y \in S : x >= y

\* w << k and w >> k on a word of wordSize bits.
Shl(w, k) == {i + k : i \in w} \cap WordBits

Shr(w, k) == {i - k : i \in w} \cap WordBits

Xor(v, w) == (v \ w) \cup (w \ v)

allOnes == WordBits

\* The lowest set bit of v; for v = 0 the isolated bit v & -v is 0 and the
\* table lookup answers deBruijn[0] = 0.
trailingZeroes64(v) == IF v = {} THEN 0 ELSE Min(v)

popcount(x) == Cardinality(x)

offsetBits(n) == [off |-> n \div wordSize, bit |-> n % wordSize]

\* ------------------------------------------------------------------ block
block(off, bits) == [Offset |-> off, Bits |-> bits]

block_setBit(b, n) == [b EXCEPT !.Bits = @ \cup {n}]

block_clearBit(b, n) == [b EXCEPT !.Bits = @ \ {n}]

block_flipBit(b, n) == [b EXCEPT !.Bits = Xor(@, {n})]

block_testBit(b, n) == (b.Bits \cap {n}) /= {}

\* --------------------------------------------------------------- blockAry
\* Go's copy(dst, src): min(len(dst), len(src)) elements are copied.
copy(dst, src) ==
    [k \in 1 .. Len(dst) |-> IF k <= Len(src) THEN src[k] ELSE dst[k]]

\* A scan "for j, el := range a" that breaks at the first element whose
\* offset is off (atLeast = FALSE) or is off or greater (atLeast = TRUE): its
\* 0-based index, or -1 when the scan runs off the end.
firstIndex(a, off, atLeast) ==
    LET hits == {j \in 0 .. (Len(a) - 1) :
                    \/ a[j + 1].Offset = off
                    \/ atLeast /\ a[j + 1].Offset > off}
    IN  IF hits = {} THEN -1 ELSE Min(hits)

insert(a, b, idx) ==
    LET l == Len(a) IN
    IF idx >= l THEN Append(a, b)
    ELSE LET t0 == << >>                      \* make([]block, 0, l+1)
             t1 == IF idx > 0 THEN copy(t0, SubSeq(a, 1, idx)) ELSE t0
             t2 == Append(t1, b)
         IN  t2 \o SubSeq(a, idx + 1, l)

delete(a, idx) ==
    IF idx >= Len(a) THEN [ary |-> a, err |-> "ErrInvalidIndex"]
    ELSE IF idx = 0 THEN [ary |-> Tail(a), err |-> "nil"]
    ELSE [ary |-> SubSeq(a, 1, idx) \o SubSeq(a, idx + 2, Len(a)), err |-> "nil"]

setBit(a, n) ==
    LET ob == offsetBits(n)
        j == firstIndex(a, ob.off, TRUE)
    IN  IF j /= -1 /\ a[j + 1].Offset = ob.off
        THEN [ary |-> [a EXCEPT ![j + 1] = block_setBit(@, ob.bit)], err |-> "nil"]
        ELSE [ary |-> insert(a, block(ob.off, {ob.bit}), IF j = -1 THEN Len(a) ELSE j),
              err |-> "nil"]

\* clearBit deleting the block it finds, whatever bits it still holds.
clearBitDroppingBlock(a, n) ==
    LET ob == offsetBits(n)
        i == firstIndex(a, ob.off, FALSE)
    IN  IF i = -1 THEN [ary |-> a, err |-> "nil"]
        ELSE delete([a EXCEPT ![i + 1] = block_clearBit(@, ob.bit)], i)

clearBit(a, n) ==
    LET ob == offsetBits(n)
        i == firstIndex(a, ob.off, FALSE)
    IN  IF i = -1 THEN [ary |-> a, err |-> "nil"]
        ELSE LET a1 == [a EXCEPT ![i + 1] = block_clearBit(@, ob.bit)]
             IN  IF a1[i + 1].Bits = {} THEN delete(a1, i)
                 ELSE [ary |-> a1, err |-> "nil"]

flipBit(a, n) ==
    LET ob == offsetBits(n)
        i == firstIndex(a, ob.off, FALSE)
    IN  IF i = -1 THEN [ary |-> a, err |-> "ErrItemNotFound"]
        ELSE [ary |-> [a EXCEPT ![i + 1] = block_flipBit(@, ob.bit)], err |-> "nil"]

testBit(a, n) ==
    IF n = 0 THEN FALSE
    ELSE LET ob == offsetBits(n)
             i == firstIndex(a, ob.off, FALSE)
         IN  IF i = -1 THEN FALSE ELSE block_testBit(a[i + 1], ob.bit)

\* ----------------------------------------------------------------- BitSet
\* A BitSet is modelled by its field set, a blockAry.
New == << >>

Test(s, n) == testBit(s, n)

\* Set and Clear answer the receiver; on an error they answer nil and leave
\* the receiver as it was.
Set(s, n) ==
    LET r == setBit(s, n) IN IF r.err /= "nil" THEN s ELSE r.ary

Clear(s, n) ==
    LET r == clearBit(s, n) IN IF r.err /= "nil" THEN s ELSE r.ary

SetTo(s, n, val) == IF val THEN Set(s, n) ELSE Clear(s, n)

\* Flip answers nil and leaves the receiver as it was when no block holds n.
Flip(s, n) ==
    LET r == flipBit(s, n)
    IN  IF r.err /= "nil" THEN [set |-> s, nil |-> TRUE]
        ELSE [set |-> r.ary, nil |-> FALSE]

ClearAll(s) == SubSeq(s, 1, 0)

\* NextSet giving up when the block of n holds no bit at or above n.
NextSetOwnBlockOnly(s, n) ==
    LET ob == offsetBits(n)
        RECURSIVE loop(_)
        loop(j) ==
            IF j >= Len(s) THEN [pos |-> 0, found |-> FALSE]
            ELSE LET el == s[j + 1]
                     w == Shr(el.Bits, ob.bit)
                 IN  IF el.Offset = ob.off
                     THEN IF w /= {} THEN [pos |-> n + trailingZeroes64(w), found |-> TRUE]
                          ELSE [pos |-> 0, found |-> FALSE]
                     ELSE IF el.Offset > ob.off
                     THEN [pos |-> (el.Offset * wordSize) + trailingZeroes64(el.Bits),
                           found |-> TRUE]
                     ELSE loop(j + 1)
    IN  loop(0)

NextSet(s, n) ==
    LET ob == offsetBits(n)
        RECURSIVE loop(_)
        loop(j) ==
            IF j >= Len(s) THEN [pos |-> 0, found |-> FALSE]
            ELSE LET el == s[j + 1]
                     w == Shr(el.Bits, ob.bit)
                 IN  IF el.Offset = ob.off /\ w /= {}
                     THEN [pos |-> n + trailingZeroes64(w), found |-> TRUE]
                     ELSE IF el.Offset > ob.off
                     THEN [pos |-> (el.Offset * wordSize) + trailingZeroes64(el.Bits),
                           found |-> TRUE]
                     ELSE loop(j + 1)
    IN  loop(0)

RECURSIVE popcountSet(_)
popcountSet(a) ==
    IF a = << >> THEN 0 ELSE popcount(Head(a).Bits) + popcountSet(Tail(a))

BitSetCardinality(s) == popcountSet(s)

Count(s) == BitSetCardinality(s)

Equal(s, c) ==
    IF Len(s) /= Len(c) THEN FALSE
    ELSE IF Len(s) = 0 THEN TRUE
    ELSE \A i \in 1 .. Len(s) :
            ~(s[i].Offset /= c[i].Offset \/ s[i].Bits /= c[i].Bits)

Clone(s) == [k \in 1 .. Len(s) |-> s[k]]

prune(s) ==
    LET RECURSIVE loop(_, _)
        loop(t, resume) ==
            LET zeros == {j \in resume .. (Len(t) - 1) : t[j + 1].Bits = {}}
            IN  IF zeros = {} THEN t
                ELSE loop(delete(t, Min(zeros)).ary, Min(zeros))
    IN  loop(s, 0)

\* Difference without its final prune.
DifferenceUnpruned(s, c) ==
    LET lb == Len(s)
        lc == Len(c)
        RECURSIVE loop(_, _, _)
        loop(res, i, j) ==
            IF i < lb /\ j < lc
            THEN LET bbl == s[i + 1]
                     cbl == c[j + 1]
                 IN  IF bbl.Offset < cbl.Offset THEN loop(Append(res, bbl), i + 1, j)
                     ELSE IF bbl.Offset = cbl.Offset
                     THEN loop(Append(res, block(bbl.Offset, bbl.Bits \ cbl.Bits)),
                               i + 1, j + 1)
                     ELSE loop(res, i, j + 1)
            ELSE res \o SubSeq(s, i + 1, lb)
    IN  loop(<< >>, 0, 0)

\* Difference without the loop that appends what is left of the receiver.
DifferenceDroppingTail(s, c) ==
    LET lb == Len(s)
        lc == Len(c)
        RECURSIVE loop(_, _, _)
        loop(res, i, j) ==
            IF i < lb /\ j < lc
            THEN LET bbl == s[i + 1]
                     cbl == c[j + 1]
                 IN  IF bbl.Offset < cbl.Offset THEN loop(Append(res, bbl), i + 1, j)
                     ELSE IF bbl.Offset = cbl.Offset
                     THEN loop(Append(res, block(bbl.Offset, bbl.Bits \ cbl.Bits)),
                               i + 1, j + 1)
                     ELSE loop(res, i, j + 1)
            ELSE res
    IN  prune(loop(<< >>, 0, 0))

Difference(s, c) ==
    LET lb == Len(s)
        lc == Len(c)
        RECURSIVE loop(_, _, _)
        loop(res, i, j) ==
            IF i < lb /\ j < lc
            THEN LET bbl == s[i + 1]
                     cbl == c[j + 1]
                 IN  IF bbl.Offset < cbl.Offset THEN loop(Append(res, bbl), i + 1, j)
                     ELSE IF bbl.Offset = cbl.Offset
                     THEN loop(Append(res, block(bbl.Offset, bbl.Bits \ cbl.Bits)),
                               i + 1, j + 1)
                     ELSE loop(res, i, j + 1)
            ELSE res \o SubSeq(s, i + 1, lb)
    IN  prune(loop(<< >>, 0, 0))

Intersection(s, c) ==
    LET lb == Len(s)
        lc == Len(c)
        RECURSIVE loop(_, _, _)
        loop(res, i, j) ==
            IF i < lb /\ j < lc
            THEN LET bbl == s[i + 1]
                     cbl == c[j + 1]
                 IN  IF bbl.Offset < cbl.Offset THEN loop(res, i + 1, j)
                     ELSE IF bbl.Offset = cbl.Offset
                     THEN loop(Append(res, block(bbl.Offset, bbl.Bits \cap cbl.Bits)),
                               i + 1, j + 1)
                     ELSE loop(res, i, j + 1)
            ELSE res
    IN  prune(loop(<< >>, 0, 0))

\* Union without the loop that appends what is left of c.
UnionDroppingTail(s, c) ==
    LET lb == Len(s)
        lc == Len(c)
        RECURSIVE loop(_, _, _)
        loop(res, i, j) ==
            IF i < lb /\ j < lc
            THEN LET bbl == s[i + 1]
                     cbl == c[j + 1]
                 IN  IF bbl.Offset < cbl.Offset THEN loop(Append(res, bbl), i + 1, j)
                     ELSE IF bbl.Offset = cbl.Offset
                     THEN loop(Append(res, block(bbl.Offset, bbl.Bits \cup cbl.Bits)),
                               i + 1, j + 1)
                     ELSE loop(Append(res, cbl), i, j + 1)
            ELSE res \o SubSeq(s, i + 1, lb)
    IN  loop(<< >>, 0, 0)

Union(s, c) ==
    LET lb == Len(s)
        lc == Len(c)
        RECURSIVE loop(_, _, _)
        loop(res, i, j) ==
            IF i < lb /\ j < lc
            THEN LET bbl == s[i + 1]
                     cbl == c[j + 1]
                 IN  IF bbl.Offset < cbl.Offset THEN loop(Append(res, bbl), i + 1, j)
                     ELSE IF bbl.Offset = cbl.Offset
                     THEN loop(Append(res, block(bbl.Offset, bbl.Bits \cup cbl.Bits)),
                               i + 1, j + 1)
                     ELSE loop(Append(res, cbl), i, j + 1)
            ELSE (res \o SubSeq(s, i + 1, lb)) \o SubSeq(c, j + 1, lc)
    IN  loop(<< >>, 0, 0)

SymmetricDifference(s, c) ==
    LET lb == Len(s)
        lc == Len(c)
        RECURSIVE loop(_, _, _)
        loop(res, i, j) ==
            IF i < lb /\ j < lc
            THEN LET bbl == s[i + 1]
                     cbl == c[j + 1]
                 IN  IF bbl.Offset < cbl.Offset THEN loop(Append(res, bbl), i + 1, j)
                     ELSE IF bbl.Offset = cbl.Offset
                     THEN loop(Append(res, block(bbl.Offset, Xor(bbl.Bits, cbl.Bits))),
                               i + 1, j + 1)
                     ELSE loop(Append(res, cbl), i, j + 1)
            ELSE (res \o SubSeq(s, i + 1, lb)) \o SubSeq(c, j + 1, lc)
    IN  prune(loop(<< >>, 0, 0))

\* The in-place operations index the receiver's array with a cursor that the
\* code bounds by a length lb of its own; an index at or beyond the array's
\* real length aborts the call (index out of range): panic is then TRUE and
\* set is the array as the abort left it.
InPlaceUnion(s, c) ==
    LET lc == Len(c)
        RECURSIVE loop(_, _, _, _)
        loop(t, i, j, lb) ==
            IF i >= lb \/ j >= lc
            THEN [set |-> t \o SubSeq(c, j + 1, lc), panic |-> FALSE]
            ELSE IF i >= Len(t) THEN [set |-> t, panic |-> TRUE]
            ELSE LET bbl == t[i + 1]
                     cbl == c[j + 1]
                 IN  IF bbl.Offset < cbl.Offset THEN loop(t, i + 1, j, lb)
                     ELSE IF bbl.Offset = cbl.Offset
                     THEN loop([t EXCEPT ![i + 1] = block(bbl.Offset, bbl.Bits \cup cbl.Bits)],
                               i + 1, j + 1, lb)
                     ELSE loop(insert(t, cbl, i), i + 1, j + 1, lb + 1)
    IN  loop(s, 0, 0, Len(s))

InPlaceSymmetricDifference(s, c) ==
    LET lb == Len(s)
        lc == Len(c)
        RECURSIVE loop(_, _, _)
        loop(t, i, j) ==
            IF i < lb /\ j < lc
            THEN IF i >= Len(t) THEN [set |-> t, panic |-> TRUE]
                 ELSE LET bbl == t[i + 1]
                          cbl == c[j + 1]
                      IN  IF bbl.Offset < cbl.Offset THEN loop(t, i + 1, j)
                          ELSE IF bbl.Offset = cbl.Offset
                          THEN loop([t EXCEPT ![i + 1] =
                                        block(bbl.Offset, Xor(bbl.Bits, cbl.Bits))],
                                    i + 1, j + 1)
                          ELSE loop(insert(t, cbl, i), i, j + 1)
            ELSE [set |-> prune(t \o SubSeq(c, j + 1, lc)), panic |-> FALSE]
    IN  loop(s, 0, 0)

\* ------------------------------------------------ cardinality-only merges
popcountSetAndNot(a, b) ==
    LET la == Len(a)
        lb == Len(b)
        RECURSIVE loop(_, _, _)
        loop(c, i, j) ==
            IF i < la /\ j < lb
            THEN LET abl == a[i + 1]
                     bbl == b[j + 1]
                 IN  IF abl.Offset < bbl.Offset
                     THEN loop(c + popcount(abl.Bits), i + 1, j)
                     ELSE IF abl.Offset = bbl.Offset
                     THEN loop(c + popcount(abl.Bits \ bbl.Bits), i + 1, j + 1)
                     ELSE loop(c, i, j + 1)
            ELSE c + popcountSet(SubSeq(a, i + 1, la))
    IN  loop(0, 0, 0)

popcountSetAnd(a, b) ==
    LET la == Len(a)
        lb == Len(b)
        RECURSIVE loop(_, _, _)
        loop(c, i, j) ==
            IF i < la /\ j < lb
            THEN LET abl == a[i + 1]
                     bbl == b[j + 1]
                 IN  IF abl.Offset < bbl.Offset THEN loop(c, i + 1, j)
                     ELSE IF abl.Offset = bbl.Offset
                     THEN loop(c + popcount(abl.Bits \cap bbl.Bits), i + 1, j + 1)
                     ELSE loop(c, i, j + 1)
            ELSE c
    IN  loop(0, 0, 0)

popcountSetOr(a, b) ==
    LET la == Len(a)
        lb == Len(b)
        RECURSIVE loop(_, _, _)
        loop(c, i, j) ==
            IF i < la /\ j < lb
            THEN LET abl == a[i + 1]
                     bbl == b[j + 1]
                 IN  IF abl.Offset < bbl.Offset
                     THEN loop(c + popcount(abl.Bits), i + 1, j)
                     ELSE IF abl.Offset = bbl.Offset
                     THEN loop(c + popcount(abl.Bits \cup bbl.Bits), i + 1, j + 1)
                     ELSE loop(c + popcount(bbl.Bits), i, j + 1)
            ELSE (c + popcountSet(SubSeq(a, i + 1, la))) + popcountSet(SubSeq(b, j + 1, lb))
    IN  loop(0, 0, 0)

\* popcountSetXor combining equal offsets with | instead of ^.
popcountSetXorCountingOr(a, b) ==
    LET la == Len(a)
        lb == Len(b)
        RECURSIVE loop(_, _, _)
        loop(c, i, j) ==
            IF i < la /\ j < lb
            THEN LET abl == a[i + 1]
                     bbl == b[j + 1]
                 IN  IF abl.Offset < bbl.Offset
                     THEN loop(c + popcount(abl.Bits), i + 1, j)
                     ELSE IF abl.Offset = bbl.Offset
                     THEN loop(c + popcount(abl.Bits \cup bbl.Bits), i + 1, j + 1)
                     ELSE loop(c + popcount(bbl.Bits), i, j + 1)
            ELSE (c + popcountSet(SubSeq(a, i + 1, la))) + popcountSet(SubSeq(b, j + 1, lb))
    IN  loop(0, 0, 0)

popcountSetXor(a, b) ==
    LET la == Len(a)
        lb == Len(b)
        RECURSIVE loop(_, _, _)
        loop(c, i, j) ==
            IF i < la /\ j < lb
            THEN LET abl == a[i + 1]
                     bbl == b[j + 1]
                 IN  IF abl.Offset < bbl.Offset
                     THEN loop(c + popcount(abl.Bits), i + 1, j)
                     ELSE IF abl.Offset = bbl.Offset
                     THEN loop(c + popcount(Xor(abl.Bits, bbl.Bits)), i + 1, j + 1)
                     ELSE loop(c + popcount(bbl.Bits), i, j + 1)
            ELSE (c + popcountSet(SubSeq(a, i + 1, la))) + popcountSet(SubSeq(b, j + 1, lb))
    IN  loop(0, 0, 0)

\* The *Cardinality methods with a non-nil argument: the count and a nil error.
DifferenceCardinality(s, c) == [n |-> popcountSetAndNot(s, c), err |-> "nil"]

IntersectionCardinality(s, c) == [n |-> popcountSetAnd(s, c), err |-> "nil"]

UnionCardinality(s, c) == [n |-> popcountSetOr(s, c), err |-> "nil"]

SymmetricDifferenceCardinality(s, c) == [n |-> popcountSetXor(s, c), err |-> "nil"]

\* ------------------------------------------------------ *BitSet arguments
\* A *BitSet argument is nil or points to a BitSet whose blocks are set.
nilBitSet == [nil |-> TRUE, set |-> << >>]

BitSetAt(s) == [nil |-> FALSE, set |-> s]

InPlaceDifference(s, c) ==
    LET lb == Len(s)
        lc == Len(c)
        RECURSIVE loop(_, _, _)
        loop(t, i, j) ==
            IF i < lb /\ j < lc
            THEN LET bbl == t[i + 1]
                     cbl == c[j + 1]
                 IN  IF bbl.Offset < cbl.Offset THEN loop(t, i + 1, j)
                     ELSE IF bbl.Offset = cbl.Offset
                     THEN loop([t EXCEPT ![i + 1] = block(bbl.Offset, bbl.Bits \ cbl.Bits)],
                               i + 1, j + 1)
                     ELSE loop(t, i, j + 1)
            ELSE t
    IN  prune(loop(s, 0, 0))

\* InPlaceIntersection without the loop that zeroes the receiver's blocks
\* beyond the argument's last one.
InPlaceIntersectionKeepingTail(s, c) ==
    LET lb == Len(s)
        lc == Len(c)
        RECURSIVE loop(_, _, _)
        loop(t, i, j) ==
            IF i < lb /\ j < lc
            THEN LET bbl == t[i + 1]
                     cbl == c[j + 1]
                 IN  IF bbl.Offset < cbl.Offset
                     THEN loop([t EXCEPT ![i + 1] = block(bbl.Offset, {})], i + 1, j)
                     ELSE IF bbl.Offset = cbl.Offset
                     THEN loop([t EXCEPT ![i + 1] = block(bbl.Offset, bbl.Bits \cap cbl.Bits)],
                               i + 1, j + 1)
                     ELSE loop(t, i, j + 1)
            ELSE t
    IN  prune(loop(s, 0, 0))

InPlaceIntersection(s, c) ==
    LET lb == Len(s)
        lc == Len(c)
        RECURSIVE loop(_, _, _)
        loop(t, i, j) ==
            IF i < lb /\ j < lc
            THEN LET bbl == t[i + 1]
                     cbl == c[j + 1]
                 IN  IF bbl.Offset < cbl.Offset
                     THEN loop([t EXCEPT ![i + 1] = block(bbl.Offset, {})], i + 1, j)
                     ELSE IF bbl.Offset = cbl.Offset
                     THEN loop([t EXCEPT ![i + 1] = block(bbl.Offset, bbl.Bits \cap cbl.Bits)],
                               i + 1, j + 1)
                     ELSE loop(t, i, j + 1)
            ELSE [k \in 1 .. lb |-> IF k - 1 >= i THEN block(t[k].Offset, {}) ELSE t[k]]
    IN  prune(loop(s, 0, 0))

\* IsSuperSet asking for the receiver's difference with c, not c's with it.
IsSuperSetSwapped(s, c) ==
    IF c.nil \/ Len(c.set) = 0 THEN TRUE
    ELSE IF DifferenceCardinality(s, c.set).n > 0 THEN FALSE
    ELSE TRUE

IsSuperSet(s, c) ==
    IF c.nil \/ Len(c.set) = 0 THEN TRUE
    ELSE IF DifferenceCardinality(c.set, s).n > 0 THEN FALSE
    ELSE TRUE

\* IsStrictSuperSet reads c.set with no test of c: a nil c aborts the call
\* (nil dereference), panic is then TRUE.
IsStrictSuperSet(s, c) ==
    IF c.nil THEN [ok |-> FALSE, panic |-> TRUE]
    ELSE
    LET lb == Len(s)
        lc == Len(c.set)
        RECURSIVE loop(_, _)
        loop(i, j) ==
            IF i < lb /\ j < lc
            THEN LET bbl == s[i + 1]
                     cbl == c.set[j + 1]
                 IN  IF bbl.Offset < cbl.Offset THEN loop(i + 1, j)
                     ELSE IF bbl.Offset = cbl.Offset
                     THEN IF cbl.Bits \ bbl.Bits /= {} THEN FALSE
                          ELSE loop(i + 1, j + 1)
                     ELSE FALSE
            ELSE IF j < lc THEN FALSE
            ELSE TRUE
    IN  [ok |-> IF lb < lc THEN FALSE ELSE loop(0, 0), panic |-> FALSE]

\* --------------------------------------------------- Complement and All
\* Complement leaving the bit of position 0 in its answer.
ComplementWithZero(s) ==
    LET lb == Len(s)
        \* the blocks that fill the gap from off up to an offset
        fill(off, upTo) == [k \in 1 .. (upTo - off) |-> block(off + k - 1, allOnes)]
        RECURSIVE loop(_, _, _)
        loop(res, off, i) ==
            IF i >= lb THEN res
            ELSE LET el == s[i + 1]
                     filled == IF off < el.Offset THEN res \o fill(off, el.Offset) ELSE res
                     off1 == IF off < el.Offset THEN el.Offset ELSE off
                 IN  IF i < lb - 1
                     THEN loop(Append(filled, block(el.Offset, allOnes \ el.Bits)),
                               off1 + 1, i + 1)
                     ELSE loop(filled, off1, i + 1)
        withLast == Append(loop(<< >>, 0, 0), s[lb])
        rel == withLast[Len(withLast)]
        j == Min({k \in 1 .. wordSize : Shr(rel.Bits, k) = {}})
        shifted == Shl(rel.Bits, wordSize - j)
        masked == Shr(allOnes \ shifted, wordSize - j)
        res1 == [withLast EXCEPT ![Len(withLast)] = block(rel.Offset, masked)]
    IN  IF lb = 0 THEN << >> ELSE prune(res1)

Complement(s) ==
    LET lb == Len(s)
        \* the blocks that fill the gap from off up to an offset
        fill(off, upTo) == [k \in 1 .. (upTo - off) |-> block(off + k - 1, allOnes)]
        RECURSIVE loop(_, _, _)
        loop(res, off, i) ==
            IF i >= lb THEN res
            ELSE LET el == s[i + 1]
                     filled == IF off < el.Offset THEN res \o fill(off, el.Offset) ELSE res
                     off1 == IF off < el.Offset THEN el.Offset ELSE off
                 IN  IF i < lb - 1
                     THEN loop(Append(filled, block(el.Offset, allOnes \ el.Bits)),
                               off1 + 1, i + 1)
                     ELSE loop(filled, off1, i + 1)
        withLast == Append(loop(<< >>, 0, 0), s[lb])
        rel == withLast[Len(withLast)]
        j == Min({k \in 1 .. wordSize : Shr(rel.Bits, k) = {}})
        shifted == Shl(rel.Bits, wordSize - j)
        masked == Shr(allOnes \ shifted, wordSize - j)
        res1 == [withLast EXCEPT ![Len(withLast)] = block(rel.Offset, masked)]
        res2 == [res1 EXCEPT ![1] = block(res1[1].Offset, Shl(Shr(res1[1].Bits, 1), 1))]
    IN  IF lb = 0 THEN << >> ELSE prune(res2)

All(s) ==
    LET lb == Len(s)
        RECURSIVE loop(_, _)
        loop(i, off) ==
            IF i >= lb - 1 THEN TRUE
            ELSE LET el == s[i + 1]
                 IN  IF el.Offset /= off THEN FALSE
                     ELSE IF el.Offset > 0 /\ i < lb - 1 /\ el.Bits /= allOnes THEN FALSE
                     ELSE loop(i + 1, off + 1)
        sel == s[lb]
        cp == IF sel.Offset = 0 THEN popcount(sel.Bits) + 1 ELSE popcount(sel.Bits)
        w == IF sel.Offset = 0 THEN (sel.Bits \cup {0}) \cap allOnes
             ELSE Xor(sel.Bits, allOnes)
        tz == trailingZeroes64(w)
    IN  IF lb = 0 THEN TRUE
        ELSE IF ~loop(0, 0) THEN FALSE
        ELSE IF cp /= tz THEN FALSE
        ELSE TRUE

\* IsEmpty, None and Any look at the number of blocks.
IsEmpty(s) == Len(s) = 0

None(s) == IsEmpty(s)

BitSetAny(s) == ~IsEmpty(s)

\* ----------------------------------------------------------- binary codec
\* The value of a word and the word of a value.
RECURSIVE pow2(_)
pow2(k) == IF k = 0 THEN 1 ELSE 2 * pow2(k - 1)

RECURSIVE wordValue(_)
wordValue(w) ==
    IF w = {} THEN 0 ELSE LET k == Max(w) IN pow2(k) + wordValue(w \ {k})

wordOf(v) == {k \in WordBits : (v \div pow2(k)) % 2 = 1}

\* binary.BigEndian: v in n bytes, most significant first, and back.
RECURSIVE bigEndian(_, _)
bigEndian(v, n) ==
    IF n = 0 THEN << >> ELSE Append(bigEndian(v \div 256, n - 1), v % 256)

RECURSIVE fromBigEndian(_)
fromBigEndian(bytes) ==
    IF bytes = << >> THEN 0
    ELSE fromBigEndian(SubSeq(bytes, 1, Len(bytes) - 1)) * 256 + bytes[Len(bytes)]

\* binary.Size of a uint32, of a uint64 and of a blockAry.
sizeUint32 == 4

sizeUint64 == 8

\* Len answers the number of bytes used by the BitSet.
BitSetLen(s) == Len(s) * sizeUint64

\* b.Copy(c): every block of b is appended to c.set; set is c.set after the
\* call and n the number answered. A nil c is left alone and 0 is answered.
Copy(s, c) ==
    IF c.nil THEN [set |-> c.set, n |-> 0]
    ELSE [set |-> c.set \o s, n |-> (Len(s) * 2) * sizeUint64]

sizeBlockAry(a) == Len(a) * (2 * sizeUint64)

BinaryStorageSize(s) == sizeUint32 + sizeBlockAry(s)

\* binary.Write writing each block's Bits before its Offset.
RECURSIVE binaryWriteBlocksBitsFirst(_)
binaryWriteBlocksBitsFirst(a) ==
    IF a = << >> THEN << >>
    ELSE (bigEndian(wordValue(Head(a).Bits), sizeUint64) \o
          bigEndian(Head(a).Offset, sizeUint64)) \o binaryWriteBlocksBitsFirst(Tail(a))

\* binary.Write(w, binary.BigEndian, a) for a blockAry a: the bytes written.
RECURSIVE binaryWriteBlocks(_)
binaryWriteBlocks(a) ==
    IF a = << >> THEN << >>
    ELSE (bigEndian(Head(a).Offset, sizeUint64) \o
          bigEndian(wordValue(Head(a).Bits), sizeUint64)) \o binaryWriteBlocks(Tail(a))

\* binary.Read(r, binary.BigEndian, &data) for a blockAry data: it reads
\* binary.Size(data) bytes, that is len(data) blocks, and fills data's
\* len(data) elements; it fails when the stream is shorter.
binaryReadBlocks(r, data) ==
    LET size == sizeBlockAry(data)
        at(k) == (k - 1) * (2 * sizeUint64)
    IN  IF Len(r) < size THEN [data |-> data, err |-> "ErrUnexpectedEOF"]
        ELSE [data |-> [k \in 1 .. Len(data) |->
                          block(fromBigEndian(SubSeq(r, at(k) + 1, at(k) + sizeUint64)),
                                wordOf(fromBigEndian(SubSeq(r, at(k) + sizeUint64 + 1,
                                                            at(k) + 2 * sizeUint64))))],
              err |-> "nil"]

\* WriteTo on a writer that accepts every byte: the bytes written, the count
\* answered and the error.
WriteTo(s) ==
    LET lb == Len(s) * (2 * sizeUint64)
    IN  [bytes |-> bigEndian(lb, sizeUint32) \o binaryWriteBlocks(s),
         n |-> BinaryStorageSize(s), err |-> "nil"]

\* ReadFrom a reader holding the bytes r: the receiver's new set, the count
\* answered and the error.
ReadFrom(s, r) ==
    IF Len(r) < sizeUint32 THEN [set |-> s, n |-> 0, err |-> "EOF"]
    ELSE LET lb == fromBigEndian(SubSeq(r, 1, sizeUint32))
             n == lb \div (2 * sizeUint64)
             set0 == << >>                     \* make(blockAry, 0, n)
             rd == binaryReadBlocks(SubSeq(r, sizeUint32 + 1, Len(r)), set0)
         IN  IF rd.err /= "nil" THEN [set |-> s, n |-> sizeUint32, err |-> rd.err]
             ELSE [set |-> rd.data, n |-> BinaryStorageSize(rd.data), err |-> "nil"]

\* ------------------------------------------------ what a blockAry denotes
\* The positions whose bit is 1 in some block of s.
Members(s) ==
    UNION {{s[i].Offset * wordSize + k : k \in s[i].Bits} : i \in DOMAIN s}

\* The block offsets of s strictly increase, and no block of s is empty.
Sorted(s) == \A i, j \in DOMAIN s : i < j => s[i].Offset < s[j].Offset

NoZeroBlock(s) == \A i \in DOMAIN s : s[i].Bits /= {}

\* ================================================================ storage
\* A blockAry is a Go slice: a window [off, off + len) on an array, which it
\* may share with other slices. heap maps each cell to the array it holds
\* (<< >> for a free cell); a slice names its cell in arr, 0 for a slice with
\* no array. The operations below are the ones above, written on slices, so
\* that what is written through one slice shows through every slice on the
\* same array.
Cells == 1 .. 5

nilSlice == [arr |-> 0, off |-> 0, len |-> 0]

capOf(h, s) == IF s.arr = 0 THEN 0 ELSE Len(h[s.arr]) - s.off

\* s[i], s[i] = e and the blocks s[0], ..., s[len-1].
elemAt(h, s, i) == h[s.arr][s.off + i + 1]

store(h, s, i, e) == [h EXCEPT ![s.arr] = [@ EXCEPT ![s.off + i + 1] = e]]

blocksOf(h, s) == [k \in 1 .. s.len |-> h[s.arr][s.off + k]]

\* An array that no slice refers to any more is collected, unless one of the
\* other BitSets (the cells in others) still holds it.
release(h, id, others) ==
    IF id = 0 \/ id \in others THEN h ELSE [h EXCEPT ![id] = << >>]

\* make(blockAry, len, cap): a new array of zero blocks.
makeSlice(h, len, cap) ==
    IF cap = 0 THEN [h |-> h, s |-> nilSlice]
    ELSE LET id == Min({c \in Cells : h[c] = << >>})
         IN  [h |-> [h EXCEPT ![id] = [k \in 1 .. cap |-> block(0, {})]],
              s |-> [arr |-> id, off |-> 0, len |-> len]]

\* s = append(s, e): in place when the capacity allows, else into a new
\* array of twice the capacity.
appendBlock(h, s, e, others) ==
    IF s.len < capOf(h, s)
    THEN [h |-> store(h, s, s.len, e), s |-> [s EXCEPT !.len = @ + 1]]
    ELSE LET old == blocksOf(h, s)
             m == makeSlice(h, s.len + 1, IF capOf(h, s) = 0 THEN 1 ELSE 2 * capOf(h, s))
             filled == [m.h EXCEPT ![m.s.arr] =
                           [k \in 1 .. Len(@) |->
                               IF k <= s.len THEN old[k]
                               ELSE IF k = s.len + 1 THEN e ELSE block(0, {})]]
         IN  [h |-> release(filled, s.arr, others), s |-> m.s]

\* w.s = append(w.s, src[from:to]...)
RECURSIVE appendFrom(_, _, _, _, _)
appendFrom(w, src, from, to, others) ==
    IF from >= to THEN w
    ELSE appendFrom(appendBlock(w.h, w.s, elemAt(w.h, src, from), others),
                    src, from + 1, to, others)

\* copy(dst, src[:n]) copies min(len(dst), n) blocks.
memInsert(h, a, b, idx, others) ==
    LET l == a.len
        copy_(g, dst, src, n) ==
            LET m == Min({dst.len, n})
            IN  IF m = 0 THEN g
                ELSE [g EXCEPT ![dst.arr] =
                         [p \in 1 .. Len(@) |->
                             IF p > dst.off /\ p <= dst.off + m
                             THEN g[src.arr][src.off + (p - dst.off)] ELSE @[p]]]
    IN
    IF idx >= l THEN appendBlock(h, a, b, others)
    ELSE LET t0 == makeSlice(h, 0, l + 1)
             h1 == IF idx > 0 THEN copy_(t0.h, t0.s, a, idx) ELSE t0.h
             t1 == appendBlock(h1, t0.s, b, others)
             t2 == appendFrom(t1, a, idx, l, others)
         IN  [h |-> release(t2.h, a.arr, others), s |-> t2.s]

memDelete(h, a, idx) ==
    IF idx >= a.len THEN [h |-> h, s |-> a, err |-> "ErrInvalidIndex"]
    ELSE IF idx = 0
    THEN [h |-> h, s |-> [a EXCEPT !.off = @ + 1, !.len = @ - 1], err |-> "nil"]
    ELSE [h |-> [h EXCEPT ![a.arr] =
                    [p \in 1 .. Len(@) |->
                        IF p > a.off + idx /\ p < a.off + a.len THEN h[a.arr][p + 1]
                        ELSE @[p]]],
          s |-> [a EXCEPT !.len = @ - 1], err |-> "nil"]

\* The mutating methods: h and s are the heap and the receiver's slice after
\* the call. Set is setBit on b.set, Clear is clearBit on it.
memSet(h, s, n, others) ==
    LET ob == offsetBits(n)
        j == firstIndex(blocksOf(h, s), ob.off, TRUE)
    IN  IF j /= -1 /\ elemAt(h, s, j).Offset = ob.off
        THEN [h |-> store(h, s, j, block_setBit(elemAt(h, s, j), ob.bit)), s |-> s]
        ELSE memInsert(h, s, block(ob.off, {ob.bit}), IF j = -1 THEN s.len ELSE j, others)

memClear(h, s, n) ==
    LET ob == offsetBits(n)
        i == firstIndex(blocksOf(h, s), ob.off, FALSE)
        h1 == store(h, s, i, block_clearBit(elemAt(h, s, i), ob.bit))
        r == IF i = -1 THEN [h |-> h, s |-> s, err |-> "nil"]
             ELSE IF elemAt(h1, s, i).Bits = {} THEN memDelete(h1, s, i)
             ELSE [h |-> h1, s |-> s, err |-> "nil"]
    IN  IF r.err /= "nil" THEN [h |-> h, s |-> s] ELSE [h |-> r.h, s |-> r.s]

memSetTo(h, s, n, val, others) == IF val THEN memSet(h, s, n, others) ELSE memClear(h, s, n)

memPrune(h, s) ==
    LET RECURSIVE loop(_, _)
        loop(w, resume) ==
            LET zeros == {j \in resume .. (w.s.len - 1) : elemAt(w.h, w.s, j).Bits = {}}
            IN  IF zeros = {} THEN w
                ELSE LET d == memDelete(w.h, w.s, Min(zeros))
                     IN  loop([h |-> d.h, s |-> d.s], Min(zeros))
    IN  loop([h |-> h, s |-> s], 0)

\* The storage as a program can tell it apart: a's array in cell 1, b's in
\* cell 2, r's in cell 3 (a shared array in the cell of the first BitSet on
\* it), no array left that no BitSet refers to, no part of an array kept
\* below the lowest slice on it, and zero blocks wherever no slice reaches.
Memory(h, sa, sb, sr) ==
    LET obj == <<sa, sb, sr>>
        live(k) == capOf(h, obj[k]) > 0
        owner(k) == Min({q \in 1 .. 3 : live(q) /\ obj[q].arr = obj[k].arr})
        base(k) == Min({obj[q].off : q \in {q \in 1 .. 3 : live(q) /\ obj[q].arr = obj[k].arr}})
        covered(k, p) == \E q \in 1 .. 3 :
                            /\ live(q) /\ obj[q].arr = obj[k].arr
                            /\ p > obj[q].off /\ p <= obj[q].off + obj[q].len
        cell(c) == IF c <= 3 /\ live(c) /\ owner(c) = c
                   THEN [p \in 1 .. (Len(h[obj[c].arr]) - base(c)) |->
                            IF covered(c, p + base(c)) THEN h[obj[c].arr][p + base(c)]
                            ELSE block(0, {})]
                   ELSE << >>
        slice(k) == IF live(k)
                    THEN [arr |-> owner(k), off |-> obj[k].off - base(k), len |-> obj[k].len]
                    ELSE nilSlice
    IN  [heap |-> [c \in Cells |-> cell(c)], a |-> slice(1), b |-> slice(2), r |-> slice(3)]

\* =========================================================== state machine
\* a and b are two BitSets (their block arrays); last records the latest
\* public call and what it answered; it is the position of a client running
\* the iteration idiom of NextSet's documentation over a; stream holds the
\* bytes of the latest WriteTo; mem is the storage of three BitSets, a, b and
\* a result r, as arrays and the slices that refer to them.
VARIABLES a, b, last, it, stream, mem

vars == <<a, b, last, it, stream, mem>>

\* name: the method; n: its position argument; pre: the receiver before the
\* call; set: the BitSet answered (or the clone operated on); num, ok: the
\* number and the boolean answered; panic: the call aborted. A call is made
\* with a non-nil argument and answers a non-nil *BitSet and a nil error
\* unless its action says otherwise: nilArg, nil and err.
Call(name, n, pre, set, num, ok, panic) ==
    [name |-> name, n |-> n, pre |-> pre, set |-> set, num |-> num, ok |-> ok,
     panic |-> panic, nilArg |-> FALSE, nil |-> FALSE, err |-> "nil"]

NoCall == Call("New", 0, << >>, << >>, 0, FALSE, FALSE)

Idle == [pc |-> "idle", i |-> 0, ok |-> FALSE, visited |-> << >>]

Init ==
    /\ a = New
    /\ b = New
    /\ last = NoCall
    /\ it = Idle
    /\ stream = << >>
    /\ mem = LET ma == makeSlice([c \in Cells |-> << >>], 0, 1)
                 mb == makeSlice(ma.h, 0, 1)
             IN  Memory(mb.h, ma.s, mb.s, nilSlice)

\* ------------------------------------------------- single-set operations
DoSet(n) ==
    /\ a' = Set(a, n)
    /\ last' = Call("Set", n, a, << >>, 0, FALSE, FALSE)
    /\ UNCHANGED <<mem, b, it, stream>>

DoClear(n) ==
    /\ a' = Clear(a, n)
    /\ last' = [Call("Clear", n, a, << >>, 0, FALSE, FALSE)
                   EXCEPT !.nil = (clearBit(a, n).err /= "nil")]
    /\ UNCHANGED <<mem, b, it, stream>>

DoTest(n) ==
    /\ last' = Call("Test", n, a, << >>, 0, Test(a, n), FALSE)
    /\ UNCHANGED <<mem, a, b, it, stream>>

DoNextSet(n) ==
    /\ last' = Call("NextSet", n, a, << >>, NextSet(a, n).pos, NextSet(a, n).found, FALSE)
    /\ UNCHANGED <<mem, a, b, it, stream>>

DoCount ==
    /\ last' = Call("Count", 0, a, << >>, Count(a), FALSE, FALSE)
    /\ UNCHANGED <<mem, a, b, it, stream>>

\* New allocating the blocks that the size hint asks for.
DoNewSized(n) ==
    /\ a' = [k \in 1 .. (n \div wordSize) |-> block(k - 1, {})]
    /\ last' = Call("New", n, << >>, << >>, 0, FALSE, FALSE)
    /\ UNCHANGED <<mem, b, it, stream>>

\* a = New(n): the size hint n is not used.
DoNew(n) ==
    /\ a' = New
    /\ last' = Call("New", n, << >>, << >>, 0, FALSE, FALSE)
    /\ UNCHANGED <<mem, b, it, stream>>

Next ==
    \/ \E n \in Positions : DoNew(n)
    \/ \E n \in Positions : DoSet(n)
    \/ \E n \in Positions : DoClear(n)
    \/ \E n \in Positions : DoTest(n)
    \/ \E n \in Positions : DoNextSet(n)
    \/ DoCount

Spec == Init /\ [][Next]_vars

\* C1: after Set(n) the members are exactly the previous members plus n.
C1_SetAddsOnlyN ==
    last.name = "Set" => Members(a) = Members(last.pre) \cup {last.n}

\* C2: Set(n) adds 1 to Count() when n was not a member and changes neither
\* Count() nor the members when it was.
C2_SetCount ==
    last.name = "Set" =>
        IF last.n \in Members(last.pre)
        THEN Count(a) = Count(last.pre) /\ Members(a) = Members(last.pre)
        ELSE Count(a) = Count(last.pre) + 1

\* C3: Test(n) is true exactly when n is a member, exactly when NextSet(n)
\* answers (n, true), for every n including 0; after Set(n), Test(n) is true.
C3_TestAgrees ==
    /\ last.name = "Test" =>
          /\ last.ok <=> (last.n \in Members(a))
          /\ last.ok <=> (NextSet(a, last.n) = [pos |-> last.n, found |-> TRUE])
    /\ last.name = "Set" => Test(a, last.n)

\* ------------------------------------------------------ building operands
\* A client brings a or b to any value Set and Clear can produce, holding at
\* most cap members, between two calls it observes: no iteration is under way,
\* the answer of the call before has been dropped (Return), and what was
\* written to the stream before is dropped too.
BuildA(n, val, cap) ==
    /\ it.pc = "idle"
    /\ last = NoCall
    /\ Count(SetTo(a, n, val)) <= cap
    /\ a' = SetTo(a, n, val)
    /\ last' = NoCall
    /\ stream' = << >>
    /\ UNCHANGED <<mem, b, it>>

BuildB(n, val, cap) ==
    /\ it.pc = "idle"
    /\ last = NoCall
    /\ Count(SetTo(b, n, val)) <= cap
    /\ b' = SetTo(b, n, val)
    /\ last' = NoCall
    /\ stream' = << >>
    /\ UNCHANGED <<mem, a, it>>

\* The client is done with the answer of the latest call.
Return ==
    /\ last /= NoCall
    /\ last' = NoCall
    /\ UNCHANGED <<mem, a, b, it, stream>>

\* -------------------------------------------------- the iteration idiom
\*   for idx, ok := set.NextSet(0); ok; idx, ok = set.NextSet(idx+1) { ... }
\* idx+1 wraps at the end of the position domain.
IterStart ==
    /\ it.pc = "idle"
    /\ it' = [pc |-> "loop", i |-> NextSet(a, 0).pos, ok |-> NextSet(a, 0).found,
              visited |-> << >>]
    /\ UNCHANGED <<mem, a, b, last, stream>>

IterBody ==
    /\ it.pc = "loop"
    /\ it.ok
    /\ Len(it.visited) <= maxPos
    /\ LET nxt == NextSet(a, (it.i + 1) % (maxPos + 1))
       IN  it' = [pc |-> "loop", i |-> nxt.pos, ok |-> nxt.found,
                  visited |-> Append(it.visited, it.i)]
    /\ UNCHANGED <<mem, a, b, last, stream>>

IterExit ==
    /\ it.pc = "loop"
    /\ ~it.ok
    /\ it' = [it EXCEPT !.pc = "done"]
    /\ UNCHANGED <<mem, a, b, last, stream>>

IterReset ==
    /\ it.pc = "done"
    /\ it' = Idle
    /\ UNCHANGED <<mem, a, b, last, stream>>

NextIter ==
    \/ \E n \in Positions, val \in BOOLEAN : BuildA(n, val, maxPos + 1)
    \/ IterStart
    \/ IterBody
    \/ IterExit
    \/ IterReset

SpecIter == Init /\ [][NextIter]_vars

\* C5: the iteration visits every member exactly once, in strictly
\* increasing order, and then ends with found = false.
C5_IterationCompletes ==
    /\ \A k \in 1 .. (Len(it.visited) - 1) : it.visited[k] < it.visited[k + 1]
    /\ Len(it.visited) <= Cardinality(Members(a))
    /\ it.pc = "done" => {it.visited[k] : k \in DOMAIN it.visited} = Members(a)

\* ------------------------------------------------------------ the codec
DoWriteTo ==
    /\ last = NoCall
    /\ stream' = WriteTo(a).bytes
    /\ last' = Call("WriteTo", 0, a, << >>, WriteTo(a).n, WriteTo(a).err = "nil", FALSE)
    /\ UNCHANGED <<mem, a, b, it>>

DoReadFrom ==
    /\ stream /= << >>
    /\ b' = ReadFrom(b, stream).set
    /\ last' = Call("ReadFrom", 0, b, << >>, ReadFrom(b, stream).n,
                    ReadFrom(b, stream).err = "nil", FALSE)
    /\ UNCHANGED <<mem, a, it, stream>>

NextCodec ==
    \/ \E n \in Positions, val \in BOOLEAN : BuildA(n, val, maxPos + 1)
    \/ DoWriteTo
    \/ DoReadFrom
    \/ Return

SpecCodec == Init /\ [][NextCodec]_vars

\* C4: reading what WriteTo wrote of a set s yields a BitSet Equal to s.
C4_RoundTrip ==
    last.name = "ReadFrom" => last.ok /\ Equal(b, a)

\* ------------------------------------------------------ the set algebra
\* Each call has receiver a and argument b, and is made once the answer of the
\* call before has been dropped.
DoUnion ==
    /\ last = NoCall
    /\ last' = Call("Union", 0, a, Union(a, b), 0, FALSE, FALSE)
    /\ UNCHANGED <<mem, a, b, it, stream>>

DoIntersection ==
    /\ last = NoCall
    /\ last' = Call("Intersection", 0, a, Intersection(a, b), 0, FALSE, FALSE)
    /\ UNCHANGED <<mem, a, b, it, stream>>

DoDifference ==
    /\ last = NoCall
    /\ last' = Call("Difference", 0, a, Difference(a, b), 0, FALSE, FALSE)
    /\ UNCHANGED <<mem, a, b, it, stream>>

DoSymmetricDifference ==
    /\ last = NoCall
    /\ last' = Call("SymmetricDifference", 0, a, SymmetricDifference(a, b), 0, FALSE, FALSE)
    /\ UNCHANGED <<mem, a, b, it, stream>>

DoUnionCardinality ==
    /\ last = NoCall
    /\ last' = Call("UnionCardinality", 0, a, << >>, UnionCardinality(a, b).n,
                    UnionCardinality(a, b).err = "nil", FALSE)
    /\ UNCHANGED <<mem, a, b, it, stream>>

DoIntersectionCardinality ==
    /\ last = NoCall
    /\ last' = Call("IntersectionCardinality", 0, a, << >>, IntersectionCardinality(a, b).n,
                    IntersectionCardinality(a, b).err = "nil", FALSE)
    /\ UNCHANGED <<mem, a, b, it, stream>>

DoDifferenceCardinality ==
    /\ last = NoCall
    /\ last' = Call("DifferenceCardinality", 0, a, << >>, DifferenceCardinality(a, b).n,
                    DifferenceCardinality(a, b).err = "nil", FALSE)
    /\ UNCHANGED <<mem, a, b, it, stream>>

DoSymmetricDifferenceCardinality ==
    /\ last = NoCall
    /\ last' = Call("SymmetricDifferenceCardinality", 0, a, << >>,
                    SymmetricDifferenceCardinality(a, b).n,
                    SymmetricDifferenceCardinality(a, b).err = "nil", FALSE)
    /\ UNCHANGED <<mem, a, b, it, stream>>

NextAlg ==
    \/ \E n \in Positions, val \in BOOLEAN : BuildA(n, val, MaxCount)
    \/ \E n \in Positions, val \in BOOLEAN : BuildB(n, val, MaxCount)
    \/ DoUnion
    \/ DoIntersection
    \/ DoDifference
    \/ DoSymmetricDifference
    \/ DoUnionCardinality
    \/ DoIntersectionCardinality
    \/ DoDifferenceCardinality
    \/ DoSymmetricDifferenceCardinality
    \/ Return

SpecAlg == Init /\ [][NextAlg]_vars

\* c := a.Clone(); c.InPlaceUnion(b), and the same with
\* InPlaceSymmetricDifference: set is c after the call.
DoInPlaceUnion ==
    /\ last = NoCall
    /\ last' = Call("InPlaceUnion", 0, a, InPlaceUnion(Clone(a), b).set, 0, FALSE,
                    InPlaceUnion(Clone(a), b).panic)
    /\ UNCHANGED <<mem, a, b, it, stream>>

DoInPlaceSymmetricDifference ==
    /\ last = NoCall
    /\ last' = Call("InPlaceSymmetricDifference", 0, a,
                    InPlaceSymmetricDifference(Clone(a), b).set, 0, FALSE,
                    InPlaceSymmetricDifference(Clone(a), b).panic)
    /\ UNCHANGED <<mem, a, b, it, stream>>

\* c := a.Clone(); c.InPlaceDifference(b) and d := a.Clone();
\* d.InPlaceIntersection(b).
DoInPlaceDifference ==
    /\ last = NoCall
    /\ last' = Call("InPlaceDifference", 0, a, InPlaceDifference(Clone(a), b), 0, FALSE, FALSE)
    /\ UNCHANGED <<mem, a, b, it, stream>>

DoInPlaceIntersection ==
    /\ last = NoCall
    /\ last' = Call("InPlaceIntersection", 0, a, InPlaceIntersection(Clone(a), b), 0, FALSE,
                    FALSE)
    /\ UNCHANGED <<mem, a, b, it, stream>>

NextInPlace ==
    \/ \E n \in Positions, val \in BOOLEAN : BuildA(n, val, MaxCount)
    \/ \E n \in Positions, val \in BOOLEAN : BuildB(n, val, MaxCount)
    \/ DoInPlaceUnion
    \/ DoInPlaceSymmetricDifference
    \/ DoInPlaceDifference
    \/ DoInPlaceIntersection
    \/ Return

SpecInPlace == Init /\ [][NextInPlace]_vars

\* ------------------------------------------------------------- supersets
\* a.IsSuperSet(c) and a.IsStrictSuperSet(c), where c is nil or points to b.
DoIsSuperSet(c) ==
    /\ last = NoCall
    /\ last' = [Call("IsSuperSet", 0, a, << >>, 0, IsSuperSet(a, c), FALSE)
                   EXCEPT !.nilArg = c.nil]
    /\ UNCHANGED <<mem, a, b, it, stream>>

DoIsStrictSuperSet(c) ==
    /\ last = NoCall
    /\ last' = [Call("IsStrictSuperSet", 0, a, << >>, 0, IsStrictSuperSet(a, c).ok,
                     IsStrictSuperSet(a, c).panic)
                   EXCEPT !.nilArg = c.nil]
    /\ UNCHANGED <<mem, a, b, it, stream>>

\* a.Copy(c), where c is nil or points to a BitSet with b's blocks: pre is
\* c.set before the call, set is c.set after it, num the number answered.
DoCopy(c) ==
    /\ last = NoCall
    /\ last' = [Call("Copy", 0, c.set, Copy(a, c).set, Copy(a, c).n, FALSE, FALSE)
                   EXCEPT !.nilArg = c.nil]
    /\ UNCHANGED <<mem, a, b, it, stream>>

NextSuper ==
    \/ \E n \in Positions, val \in BOOLEAN : BuildA(n, val, MaxCount)
    \/ \E n \in Positions, val \in BOOLEAN : BuildB(n, val, MaxCount)
    \/ \E isNil \in BOOLEAN : DoIsSuperSet(IF isNil THEN nilBitSet ELSE BitSetAt(b))
    \/ \E isNil \in BOOLEAN : DoIsStrictSuperSet(IF isNil THEN nilBitSet ELSE BitSetAt(b))
    \/ \E isNil \in BOOLEAN : DoCopy(IF isNil THEN nilBitSet ELSE BitSetAt(b))
    \/ Return

SpecSuper == Init /\ [][NextSuper]_vars

\* -------------------------------------------------- Complement and All
\* a.Complement() and a.All() on any a that Set and Clear can produce.
DoComplement ==
    /\ last = NoCall
    /\ last' = Call("Complement", 0, a, Complement(a), 0, FALSE, FALSE)
    /\ UNCHANGED <<mem, a, b, it, stream>>

DoAll ==
    /\ last = NoCall
    /\ last' = Call("All", 0, a, << >>, 0, All(a), FALSE)
    /\ UNCHANGED <<mem, a, b, it, stream>>

\* ---------------------------------------------- calls with any argument
\* a.X(c) for an argument c that may be nil. The four operations answer nil
\* for a nil argument and a new BitSet otherwise: nil records that the answer
\* is nil, set its blocks.
UnionWith(c) ==
    /\ last = NoCall
    /\ last' = [Call("Union", 0, a, IF c.nil THEN << >> ELSE Union(a, c.set), 0, FALSE, FALSE)
                   EXCEPT !.nilArg = c.nil, !.nil = c.nil]
    /\ UNCHANGED <<mem, a, b, it, stream>>

IntersectionWith(c) ==
    /\ last = NoCall
    /\ last' = [Call("Intersection", 0, a, IF c.nil THEN << >> ELSE Intersection(a, c.set), 0, FALSE, FALSE)
                   EXCEPT !.nilArg = c.nil, !.nil = c.nil]
    /\ UNCHANGED <<mem, a, b, it, stream>>

DifferenceWith(c) ==
    /\ last = NoCall
    /\ last' = [Call("Difference", 0, a, IF c.nil THEN << >> ELSE Difference(a, c.set), 0, FALSE, FALSE)
                   EXCEPT !.nilArg = c.nil, !.nil = c.nil]
    /\ UNCHANGED <<mem, a, b, it, stream>>

SymmetricDifferenceWith(c) ==
    /\ last = NoCall
    /\ last' = [Call("SymmetricDifference", 0, a, IF c.nil THEN << >> ELSE SymmetricDifference(a, c.set), 0, FALSE, FALSE)
                   EXCEPT !.nilArg = c.nil, !.nil = c.nil]
    /\ UNCHANGED <<mem, a, b, it, stream>>

\* The in-place operations act on a itself and answer nil for a nil argument,
\* the receiver otherwise: pre is a before the call, nil says that nil was
\* answered, panic that the call aborted.
InPlaceUnionWith(c) ==
    /\ last = NoCall
    /\ a' = IF c.nil THEN a ELSE InPlaceUnion(a, c.set).set
    /\ last' = [Call("InPlaceUnion", 0, a, << >>, 0, FALSE, ~c.nil /\ InPlaceUnion(a, c.set).panic)
                   EXCEPT !.nilArg = c.nil, !.nil = c.nil]
    /\ UNCHANGED <<mem, b, it, stream>>

InPlaceIntersectionWith(c) ==
    /\ last = NoCall
    /\ a' = IF c.nil THEN a ELSE InPlaceIntersection(a, c.set)
    /\ last' = [Call("InPlaceIntersection", 0, a, << >>, 0, FALSE, FALSE)
                   EXCEPT !.nilArg = c.nil, !.nil = c.nil]
    /\ UNCHANGED <<mem, b, it, stream>>

\* InPlaceDifference with no test of its argument against nil.
InPlaceDifferenceWithAny(c) ==
    /\ last = NoCall
    /\ a' = InPlaceDifference(a, c.set)
    /\ last' = [Call("InPlaceDifference", 0, a, << >>, 0, FALSE, FALSE)
                   EXCEPT !.nilArg = c.nil]
    /\ UNCHANGED <<mem, b, it, stream>>

InPlaceDifferenceWith(c) ==
    /\ last = NoCall
    /\ a' = IF c.nil THEN a ELSE InPlaceDifference(a, c.set)
    /\ last' = [Call("InPlaceDifference", 0, a, << >>, 0, FALSE, FALSE)
                   EXCEPT !.nilArg = c.nil, !.nil = c.nil]
    /\ UNCHANGED <<mem, b, it, stream>>

InPlaceSymmetricDifferenceWith(c) ==
    /\ last = NoCall
    /\ a' = IF c.nil THEN a ELSE InPlaceSymmetricDifference(a, c.set).set
    /\ last' = [Call("InPlaceSymmetricDifference", 0, a, << >>, 0, FALSE, ~c.nil /\ InPlaceSymmetricDifference(a, c.set).panic)
                   EXCEPT !.nilArg = c.nil, !.nil = c.nil]
    /\ UNCHANGED <<mem, b, it, stream>>

\* The *Cardinality methods answer (0, ErrNilArgument) for a nil argument.
UnionCardinalityWith(c) ==
    /\ last = NoCall
    /\ last' = LET r == IF c.nil THEN [n |-> 0, err |-> "ErrNilArgument"]
                        ELSE UnionCardinality(a, c.set)
                IN  [Call("UnionCardinality", 0, a, << >>, r.n, r.err = "nil", FALSE)
                        EXCEPT !.nilArg = c.nil, !.err = r.err]
    /\ UNCHANGED <<mem, a, b, it, stream>>

IntersectionCardinalityWith(c) ==
    /\ last = NoCall
    /\ last' = LET r == IF c.nil THEN [n |-> 0, err |-> "ErrNilArgument"]
                        ELSE IntersectionCardinality(a, c.set)
                IN  [Call("IntersectionCardinality", 0, a, << >>, r.n, r.err = "nil", FALSE)
                        EXCEPT !.nilArg = c.nil, !.err = r.err]
    /\ UNCHANGED <<mem, a, b, it, stream>>

DifferenceCardinalityWith(c) ==
    /\ last = NoCall
    /\ last' = LET r == IF c.nil THEN [n |-> 0, err |-> "ErrNilArgument"]
                        ELSE DifferenceCardinality(a, c.set)
                IN  [Call("DifferenceCardinality", 0, a, << >>, r.n, r.err = "nil", FALSE)
                        EXCEPT !.nilArg = c.nil, !.err = r.err]
    /\ UNCHANGED <<mem, a, b, it, stream>>

SymmetricDifferenceCardinalityWith(c) ==
    /\ last = NoCall
    /\ last' = LET r == IF c.nil THEN [n |-> 0, err |-> "ErrNilArgument"]
                        ELSE SymmetricDifferenceCardinality(a, c.set)
                IN  [Call("SymmetricDifferenceCardinality", 0, a, << >>, r.n, r.err = "nil", FALSE)
                        EXCEPT !.nilArg = c.nil, !.err = r.err]
    /\ UNCHANGED <<mem, a, b, it, stream>>

\* Equal answers false for a nil argument.
EqualWith(c) ==
    /\ last = NoCall
    /\ last' = [Call("Equal", 0, a, << >>, 0, ~c.nil /\ Equal(a, c.set), FALSE)
                   EXCEPT !.nilArg = c.nil]
    /\ UNCHANGED <<mem, a, b, it, stream>>

\* On any a that Set and Clear can produce: Complement, All, and every
\* method that takes a *BitSet, called with nil.
NextNil ==
    \/ \E n \in Positions, val \in BOOLEAN : BuildA(n, val, maxPos + 1)
    \/ DoComplement
    \/ DoAll
    \/ UnionWith(nilBitSet)
    \/ IntersectionWith(nilBitSet)
    \/ DifferenceWith(nilBitSet)
    \/ SymmetricDifferenceWith(nilBitSet)
    \/ InPlaceUnionWith(nilBitSet)
    \/ InPlaceIntersectionWith(nilBitSet)
    \/ InPlaceDifferenceWith(nilBitSet)
    \/ InPlaceSymmetricDifferenceWith(nilBitSet)
    \/ UnionCardinalityWith(nilBitSet)
    \/ IntersectionCardinalityWith(nilBitSet)
    \/ DifferenceCardinalityWith(nilBitSet)
    \/ SymmetricDifferenceCardinalityWith(nilBitSet)
    \/ EqualWith(nilBitSet)
    \/ Return

SpecNil == Init /\ [][NextNil]_vars

\* ------------------------------------------------------------ mutation
\* a goes through every mutating method, the in-place ones with b as their
\* argument, and is then compared with b.
DoFlip(n) ==
    /\ last = NoCall
    /\ a' = Flip(a, n).set
    /\ last' = [Call("Flip", n, a, << >>, 0, FALSE, FALSE) EXCEPT !.nil = Flip(a, n).nil]
    /\ UNCHANGED <<mem, b, it, stream>>

DoClearAll ==
    /\ last = NoCall
    /\ a' = ClearAll(a)
    /\ last' = Call("ClearAll", 0, a, << >>, 0, FALSE, FALSE)
    /\ UNCHANGED <<mem, b, it, stream>>

NextMut ==
    \/ \E n \in Positions, val \in BOOLEAN : BuildA(n, val, MaxCount)
    \/ \E n \in Positions, val \in BOOLEAN : BuildB(n, val, MaxCount)
    \/ \E n \in Positions : DoFlip(n)
    \/ DoClearAll
    \/ InPlaceUnionWith(BitSetAt(b))
    \/ InPlaceIntersectionWith(BitSetAt(b))
    \/ InPlaceDifferenceWith(BitSetAt(b))
    \/ InPlaceSymmetricDifferenceWith(BitSetAt(b))
    \/ EqualWith(BitSetAt(b))
    \/ Return

SpecMut == Init /\ [][NextMut]_vars

\* -------------------------------------------------------------- storage
\* The cells that the BitSets other than the one operated on refer to.
Cell(s) == IF s.arr = 0 THEN {} ELSE {s.arr}

\* a and b are built by Set and Clear, on the storage and on the block
\* sequences a and b, which record what the client has put in them.
MemBuildA(n, val, cap) ==
    /\ last = NoCall
    /\ Count(SetTo(a, n, val)) <= cap
    /\ a' = SetTo(a, n, val)
    /\ mem' = LET w == memSetTo(mem.heap, mem.a, n, val, Cell(mem.b) \cup Cell(mem.r))
              IN  Memory(w.h, w.s, mem.b, mem.r)
    /\ UNCHANGED <<b, last, it, stream>>

MemBuildB(n, val, cap) ==
    /\ last = NoCall
    /\ Count(SetTo(b, n, val)) <= cap
    /\ b' = SetTo(b, n, val)
    /\ mem' = LET w == memSetTo(mem.heap, mem.b, n, val, Cell(mem.a) \cup Cell(mem.r))
              IN  Memory(w.h, mem.a, w.s, mem.r)
    /\ UNCHANGED <<a, last, it, stream>>

\* r := a.X(b), r := a.Complement() and r := a.Clone(), once a and b are
\* built: set is the block sequence of r.
ResultOps == {"Union", "Intersection", "Difference", "SymmetricDifference",
              "Complement", "Clone"}

Operands == Cell(mem.a) \cup Cell(mem.b)

MemUnion ==
    /\ last = NoCall
    /\ LET memUnion(h, sb, sc, others) ==
               LET lb == sb.len
                   lc == sc.len
                   RECURSIVE loop(_, _, _)
                   loop(w, i, j) ==
                       IF i < lb /\ j < lc
                       THEN LET bbl == elemAt(w.h, sb, i)
                                cbl == elemAt(w.h, sc, j)
                            IN  IF bbl.Offset < cbl.Offset THEN loop(appendBlock(w.h, w.s, bbl, others), i + 1, j)
                                ELSE IF bbl.Offset = cbl.Offset
                                THEN loop(appendBlock(w.h, w.s, block(bbl.Offset, bbl.Bits \cup cbl.Bits), others),
                                          i + 1, j + 1)
                                ELSE loop(appendBlock(w.h, w.s, cbl, others), i, j + 1)
                       ELSE appendFrom(appendFrom(w, sb, i, lb, others), sc, j, lc, others)
                   res == loop([h |-> h, s |-> nilSlice], 0, 0)
               IN  res
           w == memUnion(mem.heap, mem.a, mem.b, Operands)
       IN  /\ mem' = Memory(w.h, mem.a, mem.b, w.s)
           /\ last' = Call("Union", 0, a, blocksOf(w.h, w.s), 0, FALSE, FALSE)
    /\ UNCHANGED <<a, b, it, stream>>

MemIntersection ==
    /\ last = NoCall
    /\ LET memIntersection(h, sb, sc, others) ==
               LET lb == sb.len
                   lc == sc.len
                   RECURSIVE loop(_, _, _)
                   loop(w, i, j) ==
                       IF i < lb /\ j < lc
                       THEN LET bbl == elemAt(w.h, sb, i)
                                cbl == elemAt(w.h, sc, j)
                            IN  IF bbl.Offset < cbl.Offset THEN loop(w, i + 1, j)
                                ELSE IF bbl.Offset = cbl.Offset
                                THEN loop(appendBlock(w.h, w.s, block(bbl.Offset, bbl.Bits \cap cbl.Bits), others),
                                          i + 1, j + 1)
                                ELSE loop(w, i, j + 1)
                       ELSE w
                   res == loop([h |-> h, s |-> nilSlice], 0, 0)
               IN  memPrune(res.h, res.s)
           w == memIntersection(mem.heap, mem.a, mem.b, Operands)
       IN  /\ mem' = Memory(w.h, mem.a, mem.b, w.s)
           /\ last' = Call("Intersection", 0, a, blocksOf(w.h, w.s), 0, FALSE, FALSE)
    /\ UNCHANGED <<a, b, it, stream>>

\* Difference collecting its result in the receiver's array, res.set starting
\* as b.set[:0].
MemDifferenceOnReceiverArray ==
    /\ last = NoCall
    /\ LET memDifference(h, sb, sc, others) ==
               LET lb == sb.len
                   lc == sc.len
                   RECURSIVE loop(_, _, _)
                   loop(w, i, j) ==
                       IF i < lb /\ j < lc
                       THEN LET bbl == elemAt(w.h, sb, i)
                                cbl == elemAt(w.h, sc, j)
                            IN  IF bbl.Offset < cbl.Offset THEN loop(appendBlock(w.h, w.s, bbl, others), i + 1, j)
                                ELSE IF bbl.Offset = cbl.Offset
                                THEN loop(appendBlock(w.h, w.s, block(bbl.Offset, bbl.Bits \ cbl.Bits), others),
                                          i + 1, j + 1)
                                ELSE loop(w, i, j + 1)
                       ELSE appendFrom(w, sb, i, lb, others)
                   res == loop([h |-> h, s |-> [sb EXCEPT !.len = 0]], 0, 0)
               IN  memPrune(res.h, res.s)
           w == memDifference(mem.heap, mem.a, mem.b, Operands)
       IN  /\ mem' = Memory(w.h, mem.a, mem.b, w.s)
           /\ last' = Call("Difference", 0, a, blocksOf(w.h, w.s), 0, FALSE, FALSE)
    /\ UNCHANGED <<a, b, it, stream>>

MemDifference ==
    /\ last = NoCall
    /\ LET memDifference(h, sb, sc, others) ==
               LET lb == sb.len
                   lc == sc.len
                   RECURSIVE loop(_, _, _)
                   loop(w, i, j) ==
                       IF i < lb /\ j < lc
                       THEN LET bbl == elemAt(w.h, sb, i)
                                cbl == elemAt(w.h, sc, j)
                            IN  IF bbl.Offset < cbl.Offset THEN loop(appendBlock(w.h, w.s, bbl, others), i + 1, j)
                                ELSE IF bbl.Offset = cbl.Offset
                                THEN loop(appendBlock(w.h, w.s, block(bbl.Offset, bbl.Bits \ cbl.Bits), others),
                                          i + 1, j + 1)
                                ELSE loop(w, i, j + 1)
                       ELSE appendFrom(w, sb, i, lb, others)
                   res == loop([h |-> h, s |-> nilSlice], 0, 0)
               IN  memPrune(res.h, res.s)
           w == memDifference(mem.heap, mem.a, mem.b, Operands)
       IN  /\ mem' = Memory(w.h, mem.a, mem.b, w.s)
           /\ last' = Call("Difference", 0, a, blocksOf(w.h, w.s), 0, FALSE, FALSE)
    /\ UNCHANGED <<a, b, it, stream>>

MemSymmetricDifference ==
    /\ last = NoCall
    /\ LET memSymmetricDifference(h, sb, sc, others) ==
               LET lb == sb.len
                   lc == sc.len
                   RECURSIVE loop(_, _, _)
                   loop(w, i, j) ==
                       IF i < lb /\ j < lc
                       THEN LET bbl == elemAt(w.h, sb, i)
                                cbl == elemAt(w.h, sc, j)
                            IN  IF bbl.Offset < cbl.Offset THEN loop(appendBlock(w.h, w.s, bbl, others), i + 1, j)
                                ELSE IF bbl.Offset = cbl.Offset
                                THEN loop(appendBlock(w.h, w.s, block(bbl.Offset, Xor(bbl.Bits, cbl.Bits)), others),
                                          i + 1, j + 1)
                                ELSE loop(appendBlock(w.h, w.s, cbl, others), i, j + 1)
                       ELSE appendFrom(appendFrom(w, sb, i, lb, others), sc, j, lc, others)
                   res == loop([h |-> h, s |-> nilSlice], 0, 0)
               IN  memPrune(res.h, res.s)
           w == memSymmetricDifference(mem.heap, mem.a, mem.b, Operands)
       IN  /\ mem' = Memory(w.h, mem.a, mem.b, w.s)
           /\ last' = Call("SymmetricDifference", 0, a, blocksOf(w.h, w.s), 0, FALSE, FALSE)
    /\ UNCHANGED <<a, b, it, stream>>

MemComplement ==
    /\ last = NoCall
    /\ LET memComplement(h, sb, others) ==
               LET lb == sb.len
                   RECURSIVE fill(_, _, _)
                   fill(w, off, upTo) ==
                       IF off < upTo
                       THEN fill(appendBlock(w.h, w.s, block(off, allOnes), others), off + 1, upTo)
                       ELSE w
                   RECURSIVE loop(_, _, _)
                   loop(w, off, i) ==
                       IF i >= lb THEN w
                       ELSE LET el == elemAt(w.h, sb, i)
                                filled == fill(w, off, el.Offset)
                                off1 == IF off < el.Offset THEN el.Offset ELSE off
                            IN  IF i < lb - 1
                                THEN loop(appendBlock(filled.h, filled.s,
                                                      block(el.Offset, allOnes \ el.Bits), others),
                                          off1 + 1, i + 1)
                                ELSE loop(filled, off1, i + 1)
                   withLast(g, s) == appendBlock(g, s, elemAt(g, sb, lb - 1), others)
                   highest(bits) == Min({k \in 1 .. wordSize : Shr(bits, k) = {}})
                   upTo(bits, j) == Shr(allOnes \ Shl(bits, wordSize - j), wordSize - j)
                   lastWord(g, s, rel) ==
                       store(g, s, s.len - 1, block(rel.Offset, upTo(rel.Bits, highest(rel.Bits))))
                   firstWord(g, s, rel) ==
                       store(g, s, 0, block(rel.Offset, Shl(Shr(rel.Bits, 1), 1)))
                   finish(g, s) == memPrune(firstWord(g, s, elemAt(g, s, 0)), s)
                   trim(w) == finish(lastWord(w.h, w.s, elemAt(w.h, w.s, w.s.len - 1)), w.s)
                   added(w) == trim(withLast(w.h, w.s))
               IN  IF lb = 0 THEN [h |-> h, s |-> nilSlice]
                   ELSE added(loop([h |-> h, s |-> nilSlice], 0, 0))
           w == memComplement(mem.heap, mem.a, Operands)
       IN  /\ mem' = Memory(w.h, mem.a, mem.b, w.s)
           /\ last' = Call("Complement", 0, a, blocksOf(w.h, w.s), 0, FALSE, FALSE)
    /\ UNCHANGED <<a, b, it, stream>>

\* Clone answering a BitSet whose set is the receiver's slice itself.
MemCloneSharing ==
    /\ last = NoCall
    /\ mem' = Memory(mem.heap, mem.a, mem.b, mem.a)
    /\ last' = Call("Clone", 0, a, blocksOf(mem.heap, mem.a), 0, FALSE, FALSE)
    /\ UNCHANGED <<a, b, it, stream>>

MemClone ==
    /\ last = NoCall
    /\ LET memClone(h, sb, others) ==
               LET c == makeSlice(h, 0, sb.len)
               IN  appendFrom(c, sb, 0, sb.len, others)
           w == memClone(mem.heap, mem.a, Operands)
       IN  /\ mem' = Memory(w.h, mem.a, mem.b, w.s)
           /\ last' = Call("Clone", 0, a, blocksOf(w.h, w.s), 0, FALSE, FALSE)
    /\ UNCHANGED <<a, b, it, stream>>

\* While r is a clone of a that has not been changed, a goes through any
\* number of Set and Clear calls: set keeps the blocks that the clone had when
\* it was taken.
MemSetToA(n, val, cap) ==
    /\ last.name \in {"Clone", "SetTo"}
    /\ Count(SetTo(a, n, val)) <= cap
    /\ a' = SetTo(a, n, val)
    /\ mem' = LET w == memSetTo(mem.heap, mem.a, n, val, Cell(mem.b) \cup Cell(mem.r))
              IN  Memory(w.h, w.s, mem.b, mem.r)
    /\ last' = Call("SetTo", 0, << >>, last.set, 0, FALSE, FALSE)
    /\ UNCHANGED <<b, it, stream>>

\* The result r is then changed by one call: pre and set are the block
\* sequences of r before and after it.
MemSet(n) ==
    /\ last.name \in ResultOps
    /\ LET w == memSet(mem.heap, mem.r, n, Operands)
       IN  /\ mem' = Memory(w.h, mem.a, mem.b, w.s)
           /\ last' = Call("Set", n, blocksOf(mem.heap, mem.r), blocksOf(w.h, w.s),
                           0, FALSE, FALSE)
    /\ UNCHANGED <<a, b, it, stream>>

MemClear(n) ==
    /\ last.name \in ResultOps
    /\ LET w == memClear(mem.heap, mem.r, n)
       IN  /\ mem' = Memory(w.h, mem.a, mem.b, w.s)
           /\ last' = Call("Clear", n, blocksOf(mem.heap, mem.r), blocksOf(w.h, w.s),
                           0, FALSE, FALSE)
    /\ UNCHANGED <<a, b, it, stream>>

MemFlip(n) ==
    /\ last.name \in ResultOps
    /\ LET flipBit_(h, s) ==
               LET ob == offsetBits(n)
                   i == firstIndex(blocksOf(h, s), ob.off, FALSE)
               IN  IF i = -1 THEN [h |-> h, s |-> s, err |-> "ErrItemNotFound"]
                   ELSE [h |-> store(h, s, i, block_flipBit(elemAt(h, s, i), ob.bit)),
                         s |-> s, err |-> "nil"]
           r == flipBit_(mem.heap, mem.r)
           w == IF r.err /= "nil" THEN [h |-> mem.heap, s |-> mem.r]
                ELSE [h |-> r.h, s |-> r.s]
       IN  /\ mem' = Memory(w.h, mem.a, mem.b, w.s)
           /\ last' = Call("Flip", n, blocksOf(mem.heap, mem.r), blocksOf(w.h, w.s),
                           0, FALSE, FALSE)
    /\ UNCHANGED <<a, b, it, stream>>

MemClearAll ==
    /\ last.name \in ResultOps
    /\ LET w == [h |-> mem.heap, s |-> [mem.r EXCEPT !.len = 0]]
       IN  /\ mem' = Memory(w.h, mem.a, mem.b, w.s)
           /\ last' = Call("ClearAll", 0, blocksOf(mem.heap, mem.r), blocksOf(w.h, w.s),
                           0, FALSE, FALSE)
    /\ UNCHANGED <<a, b, it, stream>>

\* r.InPlaceX(b), and a.Copy(r).
MemInPlaceUnion ==
    /\ last.name \in ResultOps
    /\ LET memInPlaceUnion(h, sb, sc, others) ==
               LET lc == sc.len
                   RECURSIVE loop(_, _, _, _)
                   loop(w, i, j, lb) ==
                       IF i >= lb \/ j >= lc
                       THEN LET t == appendFrom(w, sc, j, lc, others)
                            IN  [h |-> t.h, s |-> t.s, panic |-> FALSE]
                       ELSE IF i >= w.s.len THEN [h |-> w.h, s |-> w.s, panic |-> TRUE]
                       ELSE LET bbl == elemAt(w.h, w.s, i)
                                cbl == elemAt(w.h, sc, j)
                            IN  IF bbl.Offset < cbl.Offset THEN loop(w, i + 1, j, lb)
                                ELSE IF bbl.Offset = cbl.Offset
                                THEN loop([h |-> store(w.h, w.s, i, block(bbl.Offset, bbl.Bits \cup cbl.Bits)),
                                           s |-> w.s], i + 1, j + 1, lb)
                                ELSE loop(memInsert(w.h, w.s, cbl, i, others), i + 1, j + 1, lb + 1)
               IN  loop([h |-> h, s |-> sb], 0, 0, sb.len)
           w == memInPlaceUnion(mem.heap, mem.r, mem.b, Operands)
       IN  /\ mem' = Memory(w.h, mem.a, mem.b, w.s)
           /\ last' = Call("InPlaceUnion", 0, blocksOf(mem.heap, mem.r), blocksOf(w.h, w.s),
                           0, FALSE, w.panic)
    /\ UNCHANGED <<a, b, it, stream>>

MemInPlaceIntersection ==
    /\ last.name \in ResultOps
    /\ LET memInPlaceIntersection(h, sb, sc) ==
               LET lb == sb.len
                   lc == sc.len
                   RECURSIVE zero(_, _)
                   zero(g, i) ==
                       IF i < lb THEN zero(store(g, sb, i, block(elemAt(g, sb, i).Offset, {})), i + 1)
                       ELSE g
                   RECURSIVE loop(_, _, _)
                   loop(g, i, j) ==
                       IF i < lb /\ j < lc
                       THEN LET bbl == elemAt(g, sb, i)
                                cbl == elemAt(g, sc, j)
                            IN  IF bbl.Offset < cbl.Offset
                                THEN loop(store(g, sb, i, block(bbl.Offset, {})), i + 1, j)
                                ELSE IF bbl.Offset = cbl.Offset
                                THEN loop(store(g, sb, i, block(bbl.Offset, bbl.Bits \cap cbl.Bits)),
                                          i + 1, j + 1)
                                ELSE loop(g, i, j + 1)
                       ELSE zero(g, i)
                   w == memPrune(loop(h, 0, 0), sb)
               IN  [h |-> w.h, s |-> w.s, panic |-> FALSE]
           w == memInPlaceIntersection(mem.heap, mem.r, mem.b)
       IN  /\ mem' = Memory(w.h, mem.a, mem.b, w.s)
           /\ last' = Call("InPlaceIntersection", 0, blocksOf(mem.heap, mem.r), blocksOf(w.h, w.s),
                           0, FALSE, w.panic)
    /\ UNCHANGED <<a, b, it, stream>>

MemInPlaceDifference ==
    /\ last.name \in ResultOps
    /\ LET memInPlaceDifference(h, sb, sc) ==
               LET lb == sb.len
                   lc == sc.len
                   RECURSIVE loop(_, _, _)
                   loop(g, i, j) ==
                       IF i < lb /\ j < lc
                       THEN LET bbl == elemAt(g, sb, i)
                                cbl == elemAt(g, sc, j)
                            IN  IF bbl.Offset < cbl.Offset THEN loop(g, i + 1, j)
                                ELSE IF bbl.Offset = cbl.Offset
                                THEN loop(store(g, sb, i, block(bbl.Offset, bbl.Bits \ cbl.Bits)),
                                          i + 1, j + 1)
                                ELSE loop(g, i, j + 1)
                       ELSE g
                   w == memPrune(loop(h, 0, 0), sb)
               IN  [h |-> w.h, s |-> w.s, panic |-> FALSE]
           w == memInPlaceDifference(mem.heap, mem.r, mem.b)
       IN  /\ mem' = Memory(w.h, mem.a, mem.b, w.s)
           /\ last' = Call("InPlaceDifference", 0, blocksOf(mem.heap, mem.r), blocksOf(w.h, w.s),
                           0, FALSE, w.panic)
    /\ UNCHANGED <<a, b, it, stream>>

MemInPlaceSymmetricDifference ==
    /\ last.name \in ResultOps
    /\ LET memInPlaceSymmetricDifference(h, sb, sc, others) ==
               LET lb == sb.len
                   lc == sc.len
                   RECURSIVE loop(_, _, _)
                   loop(w, i, j) ==
                       IF i < lb /\ j < lc
                       THEN IF i >= w.s.len THEN [h |-> w.h, s |-> w.s, panic |-> TRUE]
                            ELSE LET bbl == elemAt(w.h, w.s, i)
                                     cbl == elemAt(w.h, sc, j)
                                 IN  IF bbl.Offset < cbl.Offset THEN loop(w, i + 1, j)
                                     ELSE IF bbl.Offset = cbl.Offset
                                     THEN loop([h |-> store(w.h, w.s, i,
                                                            block(bbl.Offset, Xor(bbl.Bits, cbl.Bits))),
                                                s |-> w.s], i + 1, j + 1)
                                     ELSE loop(memInsert(w.h, w.s, cbl, i, others), i, j + 1)
                       ELSE LET t == appendFrom(w, sc, j, lc, others)
                                p == memPrune(t.h, t.s)
                            IN  [h |-> p.h, s |-> p.s, panic |-> FALSE]
               IN  loop([h |-> h, s |-> sb], 0, 0)
           w == memInPlaceSymmetricDifference(mem.heap, mem.r, mem.b, Operands)
       IN  /\ mem' = Memory(w.h, mem.a, mem.b, w.s)
           /\ last' = Call("InPlaceSymmetricDifference", 0, blocksOf(mem.heap, mem.r), blocksOf(w.h, w.s),
                           0, FALSE, w.panic)
    /\ UNCHANGED <<a, b, it, stream>>

MemCopy ==
    /\ last.name \in ResultOps
    /\ LET memCopy(h, sb, sc, others) ==
               LET w == appendFrom([h |-> h, s |-> sc], sb, 0, sb.len, others)
               IN  [h |-> w.h, s |-> w.s, n |-> (sb.len * 2) * sizeUint64]
           w == memCopy(mem.heap, mem.a, mem.r, Operands)
       IN  /\ mem' = Memory(w.h, mem.a, mem.b, w.s)
           /\ last' = Call("Copy", 0, blocksOf(mem.heap, mem.r), blocksOf(w.h, w.s),
                           0, FALSE, FALSE)
    /\ UNCHANGED <<a, b, it, stream>>

\* The client drops r and the answer of the latest call.
MemReturn ==
    /\ last /= NoCall
    /\ last' = NoCall
    /\ mem' = Memory(mem.heap, mem.a, mem.b, nilSlice)
    /\ UNCHANGED <<a, b, it, stream>>

\* Storage does not depend on how wide a word is: the positions used are
\* those of the two lowest bits of each word, which tell a Clear that leaves
\* its block in place from one that empties it. a and b hold one member less
\* than MaxCount, the result up to twice as many and the one that a Set adds.
MemPositions == {p \in Positions : p % wordSize < 2}

NextMem ==
    \/ \E n \in MemPositions, val \in BOOLEAN : MemBuildA(n, val, MaxCount - 1)
    \/ \E n \in MemPositions, val \in BOOLEAN : MemBuildB(n, val, MaxCount - 1)
    \/ MemUnion
    \/ MemIntersection
    \/ MemDifference
    \/ MemSymmetricDifference
    \/ MemComplement
    \/ MemClone
    \/ \E n \in MemPositions : MemSet(n)
    \/ \E n \in MemPositions : MemClear(n)
    \/ \E n \in MemPositions : MemFlip(n)
    \/ MemClearAll
    \/ MemInPlaceUnion
    \/ MemInPlaceIntersection
    \/ MemInPlaceDifference
    \/ MemInPlaceSymmetricDifference
    \/ MemCopy
    \/ MemReturn

SpecMem == Init /\ [][NextMem]_vars

\* A set, its clone, and the calls that change one of the two: the clone is
\* the only result taken, and b is the argument of the in-place operations.
NextClone ==
    \/ \E n \in MemPositions, val \in BOOLEAN : MemBuildA(n, val, MaxCount - 1)
    \/ \E n \in MemPositions, val \in BOOLEAN : MemBuildB(n, val, 1)
    \/ MemClone
    \/ \E n \in MemPositions, val \in BOOLEAN : MemSetToA(n, val, MaxCount - 1)
    \/ \E n \in MemPositions : MemSet(n)
    \/ \E n \in MemPositions : MemClear(n)
    \/ \E n \in MemPositions : MemFlip(n)
    \/ MemClearAll
    \/ MemInPlaceUnion
    \/ MemInPlaceIntersection
    \/ MemInPlaceDifference
    \/ MemInPlaceSymmetricDifference
    \/ MemCopy
    \/ MemReturn

SpecClone == Init /\ [][NextClone]_vars

\* C6: Union, Intersection and SymmetricDifference are commutative up to
\* Equal.
C6_Commutative ==
    /\ last.name = "Union" => Equal(last.set, Union(b, a))
    /\ last.name = "Intersection" => Equal(last.set, Intersection(b, a))
    /\ last.name = "SymmetricDifference" => Equal(last.set, SymmetricDifference(b, a))

C6_Witness ==
    /\ last.name = "SymmetricDifference"
    /\ Len(a) = 2 /\ Len(b) = 2
    /\ a[1].Offset < b[1].Offset /\ b[1].Offset < a[2].Offset
    /\ a[2].Offset = b[2].Offset /\ a[2].Bits /= b[2].Bits
    /\ last.set /= << >>

\* C7: a.XCardinality(b) answers (a.X(b).Cardinality(), nil) for the four
\* families.
C7_CardinalityAgrees ==
    /\ last.name = "UnionCardinality" =>
          last.ok /\ last.num = BitSetCardinality(Union(a, b))
    /\ last.name = "IntersectionCardinality" =>
          last.ok /\ last.num = BitSetCardinality(Intersection(a, b))
    /\ last.name = "DifferenceCardinality" =>
          last.ok /\ last.num = BitSetCardinality(Difference(a, b))
    /\ last.name = "SymmetricDifferenceCardinality" =>
          last.ok /\ last.num = BitSetCardinality(SymmetricDifference(a, b))

C7_Witness ==
    /\ last.name = "DifferenceCardinality"
    /\ Len(a) = 2 /\ Len(b) = 1
    /\ a[1].Offset = b[1].Offset
    /\ a[1].Bits \cap b[1].Bits /= {}
    /\ last.num = 1

\* C8: the members of Union, Intersection, Difference and
\* SymmetricDifference are the mathematical ones, and each result has
\* strictly increasing offsets and no empty block.
C8_ReferenceAlgebra ==
    /\ last.name = "Union" =>
          Members(last.set) = Members(a) \cup Members(b)
    /\ last.name = "Intersection" =>
          Members(last.set) = Members(a) \cap Members(b)
    /\ last.name = "Difference" =>
          Members(last.set) = Members(a) \ Members(b)
    /\ last.name = "SymmetricDifference" =>
          Members(last.set) = (Members(a) \ Members(b)) \cup (Members(b) \ Members(a))
    /\ last.name \in {"Union", "Intersection", "Difference", "SymmetricDifference"} =>
          Sorted(last.set) /\ NoZeroBlock(last.set)

C8_Witness ==
    /\ last.name = "Difference"
    /\ Len(a) = 2 /\ Len(b) = 2
    /\ b[1].Offset < a[1].Offset
    /\ a[1].Offset = b[2].Offset /\ a[1].Bits = b[2].Bits
    /\ Len(last.set) = 1

\* C9: after c := a.Clone(); c.InPlaceUnion(b), c is Equal to a.Union(b),
\* c.Count() is a.UnionCardinality(b), and c is Equal to what
\* b.Clone().InPlaceUnion(a) leaves.
C9_InPlaceUnionAgrees ==
    last.name = "InPlaceUnion" =>
        /\ ~last.panic
        /\ Equal(last.set, Union(a, b))
        /\ Count(last.set) = UnionCardinality(a, b).n
        /\ ~InPlaceUnion(Clone(b), a).panic
        /\ Equal(last.set, InPlaceUnion(Clone(b), a).set)

\* C10: after c := a.Clone(); c.InPlaceSymmetricDifference(b), c is Equal to
\* a.SymmetricDifference(b), c.Count() is a.SymmetricDifferenceCardinality(b),
\* and c is Equal to what b.Clone().InPlaceSymmetricDifference(a) leaves.
C10_InPlaceSymmetricDifferenceAgrees ==
    last.name = "InPlaceSymmetricDifference" =>
        /\ ~last.panic
        /\ Equal(last.set, SymmetricDifference(a, b))
        /\ Count(last.set) = SymmetricDifferenceCardinality(a, b).n
        /\ ~InPlaceSymmetricDifference(Clone(b), a).panic
        /\ Equal(last.set, InPlaceSymmetricDifference(Clone(b), a).set)

\* C11: a.Difference(b) is Equal to b.Difference(a) exactly when a and b have
\* the same members, so never when their members differ.
C11_DifferenceNotCommutative ==
    last.name = "Difference" =>
        (Equal(last.set, Difference(b, a)) <=> Members(a) = Members(b))

C11_Witness ==
    /\ last.name = "Difference"
    /\ Members(a) /= Members(b)
    /\ \E i \in DOMAIN a, j \in DOMAIN b : a[i].Offset = b[j].Offset
    /\ last.set /= << >>
    /\ Difference(b, a) /= << >>
    /\ ~Equal(last.set, Difference(b, a))

\* C12: a.IsStrictSuperSet(b) is true exactly when every member of b is a
\* member of a and a has a member that is not in b; it is false when a and b
\* have the same members.
C12_StrictSuperSet ==
    (last.name = "IsStrictSuperSet" /\ ~last.nilArg) =>
        (last.ok <=> (Members(b) \subseteq Members(a) /\ Members(a) /= Members(b)))

\* C13: a.IsSuperSet(c) is true exactly when every member of c is a member
\* of a, which is when c.DifferenceCardinality(a) is 0; a nil c and an empty
\* c give true.
C13_SuperSet ==
    /\ (last.name = "IsSuperSet" /\ ~last.nilArg) =>
          /\ last.ok <=> (Members(b) \subseteq Members(a))
          /\ last.ok <=> (DifferenceCardinality(b, a).n = 0)
          /\ b = << >> => last.ok
    /\ (last.name = "IsSuperSet" /\ last.nilArg) => last.ok

C13_Witness ==
    /\ last.name = "IsSuperSet" /\ ~last.nilArg
    /\ Len(a) = 2 /\ Len(b) = 1
    /\ b[1].Offset = a[2].Offset
    /\ last.ok

\* C14: All() is true exactly when the set is empty or every position from 1
\* up to the highest member is a member.
C14_All ==
    last.name = "All" =>
        (last.ok <=>
            (Members(a) = {} \/ \A p \in 1 .. Max(Members(a)) : p \in Members(a)))

\* C15: for a non-empty a, a.Complement().Complement() is Equal to a.
C15_ComplementInvolutive ==
    (last.name = "Complement" /\ a /= << >>) => Equal(Complement(last.set), a)

\* C16: no call aborts.
C16_NoPanic == ~last.panic

\* C17: called with nil, Union, Intersection, Difference, SymmetricDifference
\* and their InPlace variants answer nil and leave the receiver as it was,
\* the four *Cardinality methods answer (0, ErrNilArgument), and Equal
\* answers false.
C17_NilArgument ==
    last.nilArg =>
        /\ last.name \in {"Union", "Intersection", "Difference", "SymmetricDifference",
                          "InPlaceUnion", "InPlaceIntersection", "InPlaceDifference",
                          "InPlaceSymmetricDifference"} =>
              last.nil /\ ~last.panic /\ a = last.pre
        /\ last.name \in {"UnionCardinality", "IntersectionCardinality",
                          "DifferenceCardinality", "SymmetricDifferenceCardinality"} =>
              last.num = 0 /\ last.err = "ErrNilArgument"
        /\ last.name = "Equal" => ~last.ok

C17_Witness ==
    /\ last.nilArg
    /\ last.name = "InPlaceDifference"
    /\ Len(a) = 2
    /\ last.nil

\* C18: a.Equal(b) is true exactly when a and b have the same members,
\* whatever mutating methods brought a to its state.
C18_EqualIsSemantic ==
    (last.name = "Equal" /\ ~last.nilArg) => (last.ok <=> Members(a) = Members(b))

\* C20: after Clear(n), n is not a member and every other position keeps its
\* membership; when n was not a member the set is Equal to what it was and
\* has the same Count; Clear answers the receiver.
C20_ClearRemovesOnlyN ==
    last.name = "Clear" =>
        /\ Members(a) = Members(last.pre) \ {last.n}
        /\ last.n \notin Members(last.pre) =>
              Equal(a, last.pre) /\ Count(a) = Count(last.pre)
        /\ ~last.nil

C20_Witness ==
    /\ last.name = "Clear"
    /\ Len(last.pre) = 3 /\ Len(a) = 2
    /\ offsetBits(last.n).off = last.pre[2].Offset
    /\ Members(a) /= {}

\* C19: whatever is called, and whatever is later done to the result, the
\* blocks of a and b stay what Set and Clear made them: Union, Intersection,
\* Difference, SymmetricDifference and Complement change neither operand,
\* the in-place operations and Copy do not change their argument or source,
\* and a change of the result does not show through a or b, the result
\* being on no array that a or b is on.
C19_OperandsUntouched ==
    /\ blocksOf(mem.heap, mem.a) = a
    /\ blocksOf(mem.heap, mem.b) = b
    /\ Cell(mem.r) \cap (Cell(mem.a) \cup Cell(mem.b)) = {}

C19_Witness ==
    /\ last.name = "Set"
    /\ Len(last.pre) = 2
    /\ last.set /= last.pre /\ Len(last.set) = 2
    /\ a /= << >> /\ b /= << >>

\* C21: after a.Copy(c) with a non-nil c, whatever c held, c has exactly a's
\* members and is Equal to a, and the number answered is the byte size of
\* c's blocks (2 words of sizeUint64 bytes per block); with a nil c, 0 is
\* answered.
C21_CopyIntoDestination ==
    last.name = "Copy" =>
        IF last.nilArg THEN last.num = 0
        ELSE /\ Members(last.set) = Members(a)
             /\ Equal(last.set, a)
             /\ last.num = (Len(last.set) * 2) * sizeUint64

\* C23: whatever the size hint n, a = New(n) is empty: Len() and Count() are
\* 0, Test(i) is false for every i, and a Set of any position, below, at or
\* beyond the hint, succeeds and makes that position the only member.
C23_NewIsUsable ==
    last.name = "New" =>
        /\ BitSetLen(a) = 0
        /\ Count(a) = 0
        /\ \A i \in Positions : ~Test(a, i)
        /\ \A m \in Positions :
              /\ setBit(a, m).err = "nil"
              /\ Members(Set(a, m)) = {m}
              /\ Count(Set(a, m)) = 1

C23_Witness ==
    /\ last.name = "New"
    /\ last.n > 0 /\ last.n < maxPos
    /\ a = New

\* C22: for a set of k blocks WriteTo writes 4 + 16*k bytes: a 4-byte
\* big-endian length field of value 16*k, then the blocks in sequence order,
\* each as its offset in 8 big-endian bytes followed by its bits word in 8
\* big-endian bytes; BinaryStorageSize() is 4 + 16*k and is the number that
\* WriteTo answers, with no error.
C22_WireLayout ==
    last.name = "WriteTo" =>
        LET k == Len(a)
            field(from, size) == fromBigEndian(SubSeq(stream, from + 1, from + size))
        IN  /\ Len(stream) = 4 + 16 * k
            /\ field(0, 4) = 16 * k
            /\ \A i \in 1 .. k :
                  /\ field(4 + 16 * (i - 1), 8) = a[i].Offset
                  /\ field(4 + 16 * (i - 1) + 8, 8) = wordValue(a[i].Bits)
            /\ BinaryStorageSize(a) = 4 + 16 * k
            /\ last.num = 4 + 16 * k
            /\ last.ok

C22_Witness ==
    /\ last.name = "WriteTo"
    /\ Len(a) = 2
    /\ a[1].Offset > 0
    /\ Cardinality(a[2].Bits) = 2

\* C24: whatever sequence of Set, Clear, SetTo, Flip, ClearAll and in-place
\* operations (with arguments built by Set and Clear) a has gone through, its
\* block offsets strictly increase: no offset appears twice.
C24_SortInvariant == Sorted(a)

\* C25: whatever sequence of Set, Clear, SetTo, Flip, ClearAll and in-place
\* operations a has gone through, no block of a has Bits = 0, so that
\* IsEmpty() and None() are true exactly when Count() = 0, and Any() exactly
\* when Count() > 0.
C25_NoEmptyBlock ==
    /\ NoZeroBlock(a)
    /\ IsEmpty(a) <=> (Count(a) = 0)
    /\ None(a) <=> (Count(a) = 0)
    /\ BitSetAny(a) <=> (Count(a) > 0)

\* C26: NextSet(n) answers (p, true) with p the least member at or above n
\* when there is one, in the block of n or in a later block, and (0, false)
\* when no member is at or above n.
C26_NextSetLeastMember ==
    last.name = "NextSet" =>
        LET above == {p \in Members(a) : p >= last.n}
        IN  IF above /= {} THEN last.ok /\ last.num = Min(above)
            ELSE ~last.ok /\ last.num = 0

C26_Witness ==
    /\ last.name = "NextSet"
    /\ \E i \in DOMAIN a : a[i].Offset = offsetBits(last.n).off
    /\ last.ok
    /\ offsetBits(last.num).off > offsetBits(last.n).off

C28_FlipOutcome ==
    last.name = "Flip" =>
        IF \A i \in DOMAIN last.pre : last.pre[i].Offset /= offsetBits(last.n).off
        THEN last.nil /\ a = last.pre
        ELSE /\ ~last.nil
             /\ Members(a) = Xor(Members(last.pre), {last.n})
             /\ Members(Flip(a, last.n).set) = Members(last.pre)

\* C29: after c := a.Clone(); c.InPlaceDifference(b), c is Equal to
\* a.Difference(b), and after d := a.Clone(); d.InPlaceIntersection(b), d is
\* Equal to a.Intersection(b): the blocks of a at offsets that b does not
\* have are kept by the former and removed by the latter.
C29_InPlaceAgrees ==
    /\ last.name = "InPlaceDifference" =>
          /\ Equal(last.set, Difference(a, b))
          /\ Members(last.set) = Members(a) \ Members(b)
    /\ last.name = "InPlaceIntersection" =>
          /\ Equal(last.set, Intersection(a, b))
          /\ Members(last.set) = Members(a) \cap Members(b)

C29_Witness ==
    /\ last.name = "InPlaceIntersection"
    /\ Len(a) = 2 /\ Len(b) = 1
    /\ a[1].Offset < b[1].Offset /\ b[1].Offset < a[2].Offset
    /\ last.set = << >>

====
